---- MODULE Spec2Model ----
(***************************************************************************)
(* Verification model of gym_mtsim's trading environment (MtEnv) and its   *)
(* Order entity: action decoding, the SL/TP trigger engine, trailing       *)
(* stops and the reset/step episode machine.                               *)
(*                                                                         *)
(* Python floats are modelled in two ways.  Prices, volumes, thresholds    *)
(* and probabilities are exact rationals <<num, den>> (den > 0, lowest     *)
(* terms).  The fuzzy table, whose entries the code compares with == 0,    *)
(* is computed in IEEE-754 binary64 with round-to-nearest-even, on bit     *)
(* sequences, because its exact value decides the program's behaviour.     *)
(***************************************************************************)
EXTENDS Integers, Sequences, FiniteSets, TLC

(***************************************************************************)
(* None                                                                    *)
(***************************************************************************)
None == <<>>

\* the two sl_tp_type values (None when unset)
Pip == <<"pip">>
Percent == <<"percent">>

check_is_not_none(condition) == condition # None

(***************************************************************************)
(* Exact rationals                                                         *)
(***************************************************************************)
Abs(x) == IF x < 0 THEN -x ELSE x

RECURSIVE GCD(_, _)
GCD(a, b) == IF b = 0 THEN a ELSE GCD(b, a % b)

Rat(n, d) ==
    LET g == GCD(Abs(n), Abs(d))
        s == IF d < 0 THEN -1 ELSE 1
    IN  <<(s * n) \div g, (s * d) \div g>>

RInt(n) == <<n, 1>>
RAdd(a, b) == Rat(a[1] * b[2] + b[1] * a[2], a[2] * b[2])
RSub(a, b) == Rat(a[1] * b[2] - b[1] * a[2], a[2] * b[2])
RMul(a, b) == Rat(a[1] * b[1], a[2] * b[2])
RDiv(a, b) == Rat(a[1] * b[2], a[2] * b[1])
RNeg(a) == <<-a[1], a[2]>>
RLe(a, b) == a[1] * b[2] <= b[1] * a[2]
RLt(a, b) == a[1] * b[2] < b[1] * a[2]
RGe(a, b) == RLe(b, a)
RGt(a, b) == RLt(b, a)
RMin(a, b) == IF RLe(a, b) THEN a ELSE b
RAbs(a) == <<Abs(a[1]), a[2]>>
RZero == <<0, 1>>
ROne == <<1, 1>>

(***************************************************************************)
(* IEEE-754 binary64, round to nearest, ties to even.  A double is         *)
(* [sgn, bits, e]: value = sgn * M * 2^e, M the integer whose binary       *)
(* digits (most significant first, leading digit 1) are bits; zero is      *)
(* [sgn |-> 0, bits |-> <<>>, e |-> 0].  The representation is canonical,  *)
(* so equality of records is equality of values.                           *)
(***************************************************************************)
MantBits == 53

DZero == [sgn |-> 0, bits |-> <<>>, e |-> 0]

Zeros(k) == [j \in 1..k |-> 0]

StripLeadingZeros(b) ==
    LET ones == {j \in 1..Len(b) : b[j] = 1}
    IN  IF ones = {} THEN <<>>
        ELSE SubSeq(b, CHOOSE j \in ones : \A k \in ones : j <= k, Len(b))

AllOnes(b) == \A j \in 1..Len(b) : b[j] = 1

\* b + 1 on a bit sequence that is not all ones
IncBits(b) ==
    LET z == CHOOSE j \in 1..Len(b) : b[j] = 0 /\ \A k \in (j + 1)..Len(b) : b[k] = 1
    IN  [j \in 1..Len(b) |-> IF j < z THEN b[j] ELSE IF j = z THEN 1 ELSE 0]

\* rounds sgn * (integer with binary digits b0) * 2^e to MantBits digits
DRound(sgn, b0, e) ==
    LET b == StripLeadingZeros(b0)
        n == Len(b)
    IN  IF b = <<>> \/ sgn = 0 THEN DZero
        ELSE IF n <= MantBits
        THEN [sgn |-> sgn, bits |-> b \o Zeros(MantBits - n), e |-> e - (MantBits - n)]
        ELSE LET keep  == SubSeq(b, 1, MantBits)
                 rest  == SubSeq(b, MantBits + 1, n)
                 half  == rest[1] = 1
                 more  == \E j \in 2..Len(rest) : rest[j] = 1
                 up    == half /\ (more \/ keep[MantBits] = 1)
                 en    == e + (n - MantBits)
             IN  IF ~up THEN [sgn |-> sgn, bits |-> keep, e |-> en]
                 ELSE IF AllOnes(keep)
                 THEN [sgn |-> sgn, bits |-> <<1>> \o Zeros(MantBits - 1), e |-> en + 1]
                 ELSE [sgn |-> sgn, bits |-> IncBits(keep), e |-> en]

\* the binary digits of a natural number
RECURSIVE NatBits(_)
NatBits(n) == IF n = 0 THEN <<>> ELSE Append(NatBits(n \div 2), n % 2)

DFromNat(n) == DRound(1, NatBits(n), 0)

DNeg(d) == [d EXCEPT !.sgn = -d.sgn]

\* 2^k mod b, by repeated squaring
RECURSIVE Pow2Mod(_, _)
Pow2Mod(k, b) ==
    IF k = 0 THEN 1 % b
    ELSE LET h == Pow2Mod(k \div 2, b)
         IN  (h * h * (IF k % 2 = 1 THEN 2 ELSE 1)) % b

\* the first k digits after the point of r / b (0 <= r < b), and what is left
DivDigits(r, b, k) ==
    [q |-> [j \in 1..k |-> IF 2 * ((r * Pow2Mod(j - 1, b)) % b) >= b THEN 1 ELSE 0],
     r |-> (r * Pow2Mod(k, b)) % b]

RECURSIVE Log2Floor(_, _)
Log2Floor(a, b) == \* the s with b * 2^s <= a < b * 2^(s+1), for a, b > 0
    IF a < b THEN Log2Floor(2 * a, b) - 1
    ELSE IF a >= 2 * b THEN Log2Floor(a, 2 * b) + 1
    ELSE 0

\* a / b for naturals a, b > 0: Python's true division of two ints
DDivNat(a, b) ==
    LET s  == Log2Floor(a, b)
        a1 == IF s < 0 THEN a * 2^(-s) ELSE a
        b1 == IF s > 0 THEN b * 2^s ELSE b
        \* a1 / b1 lies in [1, 2): MantBits + 1 further digits and a sticky digit
        d  == DivDigits(a1 - b1, b1, MantBits + 1)
        q  == <<1>> \o d.q \o <<IF d.r > 0 THEN 1 ELSE 0>>
    IN  DRound(1, q, s - (MantBits + 2))

\* Long integers are handled in limbs of LimbBits binary digits, least
\* significant limb first.
LimbBits == 13

RECURSIVE BitsToNat(_)
BitsToNat(b) ==
    IF Len(b) = 0 THEN 0
    ELSE IF Len(b) = 1 THEN b[1]
    ELSE LET h == Len(b) \div 2
         IN  BitsToNat(SubSeq(b, 1, h)) * 2^(Len(b) - h)
             + BitsToNat(SubSeq(b, h + 1, Len(b)))

ToLimbs(b) ==
    LET count == (Len(b) + LimbBits - 1) \div LimbBits
        p     == Zeros(count * LimbBits - Len(b)) \o b
    IN  [k \in 1..count |->
            BitsToNat(SubSeq(p, (count - k) * LimbBits + 1, (count - k + 1) * LimbBits))]

FromLimbs(l) ==
    [j \in 1..(Len(l) * LimbBits) |->
        LET k   == Len(l) - ((j - 1) \div LimbBits)
            pos == LimbBits - 1 - ((j - 1) % LimbBits)
        IN  (l[k] \div 2^pos) % 2]

\* the limbs of (integer with limbs l) * i + carry
RECURSIVE MulLimbs(_, _, _)
MulLimbs(l, i, carry) ==
    IF l = <<>> THEN IF carry = 0 THEN <<>> ELSE <<carry>>
    ELSE LET v == l[1] * i + carry
         IN  <<v % 2^LimbBits>> \o MulLimbs(Tail(l), i, v \div 2^LimbBits)

\* the digits of (integer with digits b) * i, for a small natural i
MulBits(b, i) == FromLimbs(MulLimbs(ToLimbs(b), i, 0))

\* i * d for a natural i (an int operand is converted exactly)
DMulNat(i, d) ==
    IF i = 0 \/ d.sgn = 0 THEN DZero
    ELSE DRound(d.sgn, MulBits(d.bits, i), d.e)

\* the limbs of a - b - borrow, for limb sequences of equal length, a >= b
RECURSIVE SubLimbs(_, _, _)
SubLimbs(a, b, borrow) ==
    IF a = <<>> THEN <<>>
    ELSE LET v == a[1] - b[1] - borrow
         IN  <<IF v < 0 THEN v + 2^LimbBits ELSE v>>
             \o SubLimbs(Tail(a), Tail(b), IF v < 0 THEN 1 ELSE 0)

\* a - b on bit sequences of equal length, a >= b
SubBits(a, b) == FromLimbs(SubLimbs(ToLimbs(a), ToLimbs(b), 0))

BitsLess(a, b) == \* a < b, for bit sequences of equal length
    \E k \in 1..Len(a) : a[k] < b[k] /\ \A m \in 1..(k - 1) : a[m] = b[m]

\* d - 1 for a double 0 <= d < 4 whose last digit weighs at most 1
DSubOne(d) ==
    IF d.sgn = 0 THEN DNeg(DFromNat(1))
    ELSE LET lo  == d.e                      \* weight of the last digit
             wid == 2 - lo                   \* digits of weight 2^1 .. 2^lo
             x   == Zeros(wid - MantBits) \o d.bits
             one == <<0, 1>> \o Zeros(-lo)
         IN  IF BitsLess(x, one) THEN DRound(-1, SubBits(one, x), lo)
             ELSE DRound(1, SubBits(x, one), lo)

(***************************************************************************)
(* MtEnv.fuzzy_terms_generator                                             *)
(***************************************************************************)
\* the outcome of a call: the error raised ("" when none) and the list returned
FuzzyError == "ValueError"

fuzzy_terms_generator(x) ==
    IF x % 2 = 0 THEN [error |-> FuzzyError, terms |-> <<>>]
    ELSE IF x = 1 THEN [error |-> "", terms |-> <<DZero>>]
    ELSE LET step_size == DDivNat(2, x - 1)
         IN  [error |-> "",
              terms |-> [j \in 1..x |-> DSubOne(DMulNat(j - 1, step_size))]]

(***************************************************************************)
(* OrderType and Order (simulator/order.py)                                *)
(***************************************************************************)
Sell == "Sell"
Buy == "Buy"
OrderType == {Sell, Buy}

sign(type) == IF type = Buy THEN RInt(1) ELSE RInt(-1)

opposite(type) == IF type = Sell THEN Buy ELSE Sell

\* Order.__init__: profit, gross_profit and margin start at 0, closed at
\* False, and initial_sl is a snapshot of sl.
Order(id, type, symbol, volume, fee, entry_time, entry_price, exit_time, exit_price, fee_type, sl, tp, sl_tp_type, trailing_distance) ==
    [id |-> id, type |-> type, symbol |-> symbol, volume |-> volume,
     fee |-> fee, fee_type |-> fee_type,
     entry_time |-> entry_time, entry_price |-> entry_price,
     exit_time |-> exit_time, exit_price |-> exit_price,
     profit |-> RZero, gross_profit |-> RZero,
     sl |-> sl, tp |-> tp, sl_tp_type |-> sl_tp_type,
     margin |-> RZero, closed |-> FALSE,
     initial_sl |-> sl, trailing_distance |-> trailing_distance]

(***************************************************************************)
(* The accounting collaborator (MtSimulator).  Its code is not part of the *)
(* sources; it is modelled from its interface: an ordered ledger of open   *)
(* orders, equity = balance + unrealized profit, free margin = equity -    *)
(* margin, and order creation that fails when margin is insufficient or,   *)
(* without hedging, when the symbol already has an open order.             *)
(***************************************************************************)
InsufficientMargin == "InsufficientMargin"
CapacityExceeded == "CapacityExceeded"

\* volume limits of a symbol (symbols_info[symbol])
SymbolInfo == [volume_min |-> RInt(1), volume_max |-> RInt(2), volume_step |-> RInt(1)]

RECURSIVE SumProfit(_)
SumProfit(orders) ==
    IF orders = <<>> THEN RZero ELSE RAdd(Head(orders).profit, SumProfit(Tail(orders)))

price_at(sim, symbol) == sim.prices[symbol]

symbol_orders(sim, symbol) == SelectSeq(sim.orders, LAMBDA o : o.symbol = symbol)

free_margin(sim) == RSub(sim.equity, sim.margin)

margin_level(sim) == IF sim.margin = RZero THEN None ELSE RDiv(sim.equity, sim.margin)

\* profit of an order if it were closed at price
update_order_profit(o, time, price) ==
    LET gross == RMul(o.volume, RMul(sign(o.type), RSub(price, o.entry_price)))
        cost  == IF o.fee_type = "floating"
                 THEN RMul(o.volume, RMul(o.fee, o.entry_price))
                 ELSE RMul(o.volume, o.fee)
    IN  [o EXCEPT !.exit_time = time, !.exit_price = price,
                  !.gross_profit = gross, !.profit = RSub(gross, cost)]

recompute_equity(sim) == [sim EXCEPT !.equity = RAdd(sim.balance, SumProfit(sim.orders))]

\* create_order: [sim, order, error]; order = None when it fails
create_order(sim, type, symbol, volume, fee, fee_type, sl, tp, sl_tp_type, trailing_distance) ==
    LET price == price_at(sim, symbol).Close
        fresh == Order(Len(sim.closed_orders) + Len(sim.orders) + 1, type, symbol,
                       volume, fee, sim.current_time, price, sim.current_time, price,
                       fee_type, sl, tp, sl_tp_type, trailing_distance)
        o1    == update_order_profit(fresh, sim.current_time, price)
        o     == [o1 EXCEPT !.margin = RMul(volume, price)]
    IN  IF ~sim.hedge /\ symbol_orders(sim, symbol) # <<>>
        THEN [sim |-> sim, order |-> None, error |-> CapacityExceeded]
        ELSE IF RGt(o.margin, RAdd(free_margin(sim), o.profit))
        THEN [sim |-> sim, order |-> None, error |-> InsufficientMargin]
        ELSE [sim |-> recompute_equity([sim EXCEPT !.orders = Append(@, o),
                                                   !.margin = RAdd(@, o.margin)]),
              order |-> o, error |-> ""]

\* close_order(order, close_price): close_price = None closes at the Close;
\* an id that is not open leaves the ledger as it is
close_order(sim, id, close_price) ==
    LET open  == {sim.orders[j] : j \in 1..Len(sim.orders)}
        o     == CHOOSE x \in open : x.id = id
        price == IF close_price = None THEN price_at(sim, o.symbol).Close ELSE close_price
        done  == [update_order_profit(o, sim.current_time, price) EXCEPT !.closed = TRUE]
    IN  IF \A x \in open : x.id # id THEN sim
        ELSE recompute_equity(
                 [sim EXCEPT !.orders = SelectSeq(@, LAMBDA x : x.id # id),
                             !.closed_orders = Append(@, done),
                             !.balance = RAdd(@, done.profit),
                             !.margin = RSub(@, done.margin)])

\* tick(delta): the clock advances and open orders are marked to the new Close
tick(sim, delta_time, prices) ==
    LET time == sim.current_time + delta_time
    IN  recompute_equity(
            [sim EXCEPT !.current_time = time,
                        !.prices = prices,
                        !.orders = [j \in 1..Len(@) |->
                            update_order_profit(@[j], time, prices[@[j].symbol].Close)]])

(***************************************************************************)
(* MtEnv: numeric helpers                                                  *)
(***************************************************************************)
\* scipy.special.expit on the logits the model feeds it, to three decimals;
\* expit(0) = 0.5 exactly
expit(x) ==
    CASE x = RInt(-1) -> Rat(269, 1000)
      [] x = RZero    -> Rat(1, 2)
      [] x = RInt(1)  -> Rat(731, 1000)

\* variant: the quotient is rounded down
round_down(a) == a[1] \div a[2]

\* Python's round(): to the nearest integer, ties to the even one
round(a) ==
    LET fl   == a[1] \div a[2]
        twoR == 2 * (a[1] - fl * a[2])
    IN  IF twoR < a[2] THEN fl
        ELSE IF twoR > a[2] THEN fl + 1
        ELSE IF fl % 2 = 0 THEN fl ELSE fl + 1

clip(v, lo, hi) == IF RLt(v, lo) THEN lo ELSE IF RGt(v, hi) THEN hi ELSE v

\* a double as a rational; its magnitude is kept to KeepBits leading digits
\* (exact for the dyadic table entries), its sign and zero are exact
KeepBits == 12

DToRat(d) ==
    IF d.sgn = 0 THEN RZero
    ELSE LET m == BitsToNat(SubSeq(d.bits, 1, KeepBits))
             e == d.e + (MantBits - KeepBits)
         IN  IF e >= 0 THEN Rat(d.sgn * m * 2^e, 1) ELSE Rat(d.sgn * m, 2^(-e))

(***************************************************************************)
(* MtEnv: volume and fee                                                   *)
(***************************************************************************)
\* the body of _get_modified_volume for the volume limits si of the symbol
modified_volume_for(si, volume) ==
    LET v == clip(RAbs(volume), si.volume_min, si.volume_max)
    IN  RMul(RInt(round(RDiv(v, si.volume_step))), si.volume_step)

\* every symbol of the model has the volume limits SymbolInfo
_get_modified_volume(volume) == modified_volume_for(SymbolInfo, volume)

_update_price_with_fee(env, net_price) ==
    IF env.fee_type = "fixed" THEN RAdd(net_price, env.fee)
    ELSE IF env.fee_type = "floating" THEN RMul(net_price, RAdd(ROne, env.fee))
    ELSE net_price

_get_volume_for_discrete_action(env, sim, symbol, action_fuzzy_value) ==
    LET entry_price     == price_at(sim, symbol).Close
        which_to_choose == IF env.balance_or_free_margin_for_volume_computation
                           THEN sim.balance ELSE free_margin(sim)
        entry_price_with_fee == _update_price_with_fee(env, entry_price)
    IN  RDiv(RMul(DToRat(action_fuzzy_value), which_to_choose), entry_price_with_fee)

(***************************************************************************)
(* MtEnv: the SL/TP trigger engine                                         *)
(***************************************************************************)
\* variant: the order's type is ignored, a Sell order is read like a Buy order
order_sl_or_tp_creator_ignoring_type(order, low_or_high) ==
    IF low_or_high = "Low" THEN order.sl ELSE order.tp

order_sl_or_tp_creator(order, low_or_high) ==
    IF order.type = Buy
    THEN (IF low_or_high = "Low" THEN order.sl ELSE order.tp)
    ELSE (IF low_or_high = "Low" THEN order.tp ELSE order.sl)

\* the threshold price (first component of the pair the code returns)
sl_tp_conditions_creator(order, low_or_high) ==
    LET sl_or_tp == order_sl_or_tp_creator(order, low_or_high)
    IN  IF order.sl_tp_type = Pip
        THEN (IF low_or_high = "Low" THEN RSub(order.entry_price, sl_or_tp)
              ELSE RAdd(order.entry_price, sl_or_tp))
        ELSE (IF low_or_high = "Low"
              THEN RMul(order.entry_price, RSub(ROne, sl_or_tp))
              ELSE RMul(order.entry_price, RAdd(ROne, sl_or_tp)))

LowHit(order, ohlc) ==
    /\ check_is_not_none(order_sl_or_tp_creator(order, "Low"))
    /\ RLe(ohlc.Low, sl_tp_conditions_creator(order, "Low"))

HighHit(order, ohlc) ==
    /\ check_is_not_none(order_sl_or_tp_creator(order, "High"))
    /\ RGe(ohlc.High, sl_tp_conditions_creator(order, "High"))

\* the two tests run one after the other, each assigning close_price when it
\* is satisfied: Low then High for a Buy order, High then Low for a Sell order
SlTpDecision(order, ohlc) ==
    LET none   == [close_order |-> FALSE, close_price |-> None]
        low(d)  == IF LowHit(order, ohlc)
                   THEN [close_order |-> TRUE,
                         close_price |-> sl_tp_conditions_creator(order, "Low")]
                   ELSE d
        high(d) == IF HighHit(order, ohlc)
                   THEN [close_order |-> TRUE,
                         close_price |-> sl_tp_conditions_creator(order, "High")]
                   ELSE d
    IN  IF order.type = Buy THEN high(low(none)) ELSE low(high(none))

\* check_sl_tp_condition: [sim, closed, close_price, ohlc]
check_sl_tp_condition(sim, order) ==
    LET current_ohlc == price_at(sim, order.symbol)
        Decided(d) ==
            [sim |-> IF d.close_order THEN close_order(sim, order.id, d.close_price)
                     ELSE sim,
             closed |-> d.close_order, close_price |-> d.close_price,
             ohlc |-> current_ohlc]
    IN  Decided(SlTpDecision(order, current_ohlc))

(***************************************************************************)
(* MtEnv: trailing stops                                                   *)
(***************************************************************************)
\* variant: the stop follows the Close both ways, min() left out
TrailingSlWithoutMin(order, current_close) ==
    IF order.type = Buy
    THEN (IF order.sl_tp_type = Pip
          THEN RSub(RAdd(order.initial_sl, order.entry_price), current_close)
          ELSE RSub(ROne, RDiv(RMul(current_close, RSub(ROne, order.sl)),
                               order.entry_price)))
    ELSE (IF order.sl_tp_type = Pip
          THEN RAdd(RSub(order.initial_sl, order.entry_price), current_close)
          ELSE RSub(RDiv(RMul(current_close, RAdd(ROne, order.sl)),
                         order.entry_price), ROne))

\* variant: the pip candidate is measured from the current sl
TrailingSlFromCurrentSl(order, current_close) ==
    IF order.type = Buy
    THEN (IF order.sl_tp_type = Pip
          THEN RMin(order.sl, RSub(RAdd(order.sl, order.entry_price), current_close))
          ELSE IF order.sl_tp_type = Percent
          THEN RMin(order.sl,
                    RSub(ROne, RDiv(RMul(current_close, RSub(ROne, order.sl)),
                                    order.entry_price)))
          ELSE order.sl)
    ELSE (IF order.sl_tp_type = Pip
          THEN RMin(order.sl, RAdd(RSub(order.sl, order.entry_price), current_close))
          ELSE IF order.sl_tp_type = Percent
          THEN RMin(order.sl,
                    RSub(RDiv(RMul(current_close, RAdd(ROne, order.sl)),
                              order.entry_price), ROne))
          ELSE order.sl)

TrailingSl(order, current_close) ==
    IF order.type = Buy
    THEN (IF order.sl_tp_type = Pip
          THEN RMin(order.sl, RSub(RAdd(order.initial_sl, order.entry_price), current_close))
          ELSE IF order.sl_tp_type = Percent
          THEN RMin(order.sl,
                    RSub(ROne, RDiv(RMul(current_close, RSub(ROne, order.sl)),
                                    order.entry_price)))
          ELSE order.sl)
    ELSE (IF order.sl_tp_type = Pip
          THEN RMin(order.sl, RAdd(RSub(order.initial_sl, order.entry_price), current_close))
          ELSE IF order.sl_tp_type = Percent
          THEN RMin(order.sl,
                    RSub(RDiv(RMul(current_close, RAdd(ROne, order.sl)),
                              order.entry_price), ROne))
          ELSE order.sl)

order_trailing_sl_updater(sim, order) ==
    [order EXCEPT !.sl = TrailingSl(order, price_at(sim, order.symbol).Close)]

TrailCall(sim, order) ==
    [op |-> "order_trailing_sl_updater", symbol |-> order.symbol, id |-> order.id,
     previous_sl |-> order.sl, sl |-> order_trailing_sl_updater(sim, order).sl,
     current_close |-> price_at(sim, order.symbol).Close]

\* orders_sl_update: [sim, calls]; symbol by symbol, each symbol's orders in
\* ledger order
orders_sl_update(env, sim) ==
    IF env.trailing_distance = None THEN [sim |-> sim, calls |-> <<>>]
    ELSE LET syms == env.trading_symbols
             perSymbol(i) == 
                 LET os == symbol_orders(sim, syms[i])
                 IN  [j \in 1..Len(os) |-> TrailCall(sim, os[j])]
             RECURSIVE Cat(_)
             Cat(i) == IF i > Len(syms) THEN <<>> ELSE perSymbol(i) \o Cat(i + 1)
         IN  [sim |-> [sim EXCEPT !.orders = [j \in 1..Len(@) |->
                           IF \E i \in 1..Len(syms) : syms[i] = @[j].symbol
                           THEN order_trailing_sl_updater(sim, @[j]) ELSE @[j]]],
              calls |-> Cat(1)]

(***************************************************************************)
(* MtEnv._apply_action                                                     *)
(***************************************************************************)
NaN == <<"nan">>

actions_fuzzy_term(env) == fuzzy_terms_generator(env.discrete_actions_count).terms

\* variant: hold at hold_probability >= hold_threshold
DecodeContinuousHoldAtThreshold(env, action, i) ==
    LET k == env.symbol_max_orders + 2
        symbol_action      == SubSeq(action, k * i + 1, k * (i + 1))
        close_orders_logit == SubSeq(symbol_action, 1, k - 2)
        hold_probability   == expit(symbol_action[k - 1])
    IN  [close_orders_probability |->
             [j \in 1..Len(close_orders_logit) |-> expit(close_orders_logit[j])],
         hold_probability |-> hold_probability,
         hold |-> RGe(hold_probability, env.hold_threshold),
         volume |-> symbol_action[k]]

\* the decoded intent of symbol number i (from 0) under the three action modes
DecodeContinuous(env, action, i) ==
    LET k == env.symbol_max_orders + 2
        symbol_action      == SubSeq(action, k * i + 1, k * (i + 1))
        close_orders_logit == SubSeq(symbol_action, 1, k - 2)
        hold_logit         == symbol_action[k - 1]
        hold_probability   == expit(hold_logit)
    IN  [close_orders_probability |->
             [j \in 1..Len(close_orders_logit) |-> expit(close_orders_logit[j])],
         hold_probability |-> hold_probability,
         hold |-> RGt(hold_probability, env.hold_threshold),
         volume |-> symbol_action[k]]

\* variant: the discrete decoder asks for the first order to be closed
DecodeDiscreteClosing(env, sim, action, i) ==
    LET Decoded(action_fuzzy_value) ==
            LET hold == (action_fuzzy_value = DZero)
            IN  [close_orders_probability |-> <<RInt(1)>>,
                 hold_probability |-> IF hold THEN RInt(100) ELSE RZero,
                 hold |-> hold,
                 volume |-> _get_volume_for_discrete_action(
                                env, sim, env.trading_symbols[i + 1], action_fuzzy_value)]
    IN  Decoded(actions_fuzzy_term(env)[<<action>>[i + 1] + 1])

DecodeDiscrete(env, sim, action, i) ==
    LET wrapped == <<action>>
        symbol_action == wrapped[i + 1]
        Decoded(action_fuzzy_value) ==
            LET hold == (action_fuzzy_value = DZero)
            IN  [close_orders_probability |-> <<>>,
                 hold_probability |-> IF hold THEN RInt(100) ELSE RZero,
                 hold |-> hold,
                 volume |-> _get_volume_for_discrete_action(
                                env, sim, env.trading_symbols[i + 1], action_fuzzy_value)]
    IN  Decoded(actions_fuzzy_term(env)[symbol_action + 1])

DecodeStructured(env, action, i) ==
    LET symbol_action == action[i + 1]
        hold == (symbol_action[2] # 0)
    IN  [close_orders_probability |->
             [j \in 1..Len(symbol_action[1]) |-> RInt(symbol_action[1][j])],
         hold_probability |-> IF hold THEN RInt(100) ELSE RZero,
         hold |-> hold,
         volume |-> symbol_action[3][1]]

Decode(env, sim, action, i) ==
    IF env.action_mode = 0 THEN DecodeContinuous(env, action, i)
    ELSE IF env.action_mode = 1 THEN DecodeDiscrete(env, sim, action, i)
    ELSE DecodeStructured(env, action, i)

\* variant: >= close_threshold
orders_to_close_index_at_threshold(env, close_orders_probability, symbol_orders_len) ==
    {j \in 1..Len(close_orders_probability) :
        /\ j <= symbol_orders_len
        /\ RGe(close_orders_probability[j], env.close_threshold)}

\* np.where(close_orders_probability[:len(symbol_orders)] > close_threshold)[0],
\* as the set of selected positions (from 1)
orders_to_close_index(env, close_orders_probability, symbol_orders_len) ==
    {j \in 1..Len(close_orders_probability) :
        /\ j <= symbol_orders_len
        /\ RGt(close_orders_probability[j], env.close_threshold)}

ClosedInfo(order, close_probability) ==
    [order_id |-> order.id, symbol |-> order.symbol, order_type |-> order.type,
     volume |-> order.volume, fee |-> order.fee, margin |-> order.margin,
     profit |-> order.profit, close_probability |-> close_probability,
     fee_type |-> order.fee_type, sl |-> order.sl, tp |-> order.tp,
     sl_tp_type |-> order.sl_tp_type, trailing_distance |-> order.trailing_distance]

LastClosed(sim) == sim.closed_orders[Len(sim.closed_orders)]

\* the loop over orders_to_close: positions todo of the snapshot orders, in
\* increasing order; c = [sim, closed, calls]
RECURSIVE CloseSelected(_, _, _, _)
CloseSelected(c, orders, probability, todo) ==
    IF todo = {} THEN c
    ELSE LET j == CHOOSE x \in todo : \A y \in todo : x <= y
             Closed(sim1) ==
                 CloseSelected(
                     [sim    |-> sim1,
                      closed |-> Append(c.closed,
                                        ClosedInfo(LastClosed(sim1), probability[j])),
                      calls  |-> Append(c.calls,
                                    [op |-> "close_order", symbol |-> orders[j].symbol,
                                     id |-> orders[j].id,
                                     close_probability |-> probability[j]])],
                     orders, probability, todo \ {j})
         IN  Closed(close_order(c.sim, orders[j].id, None))

\* variant: the trigger loop runs over the orders as they were before the closes
OrdersBeforeCloses(sim_before_closes, sim_after_closes, symbol) ==
    symbol_orders(sim_before_closes, symbol)

\* orders = self.simulator.symbol_orders(symbol), read again after the closes
OrdersToCheck(sim_before_closes, sim_after_closes, symbol) ==
    symbol_orders(sim_after_closes, symbol)

\* the loop that tests SL/TP on every order of the symbol that is still open
RECURSIVE CheckOrders(_, _, _)
CheckOrders(c, orders, j) ==
    IF j > Len(orders) THEN c
    ELSE IF ~check_is_not_none(orders[j].sl_tp_type) THEN CheckOrders(c, orders, j + 1)
    ELSE LET Checked(r) ==
                 CheckOrders(
                     [sim    |-> r.sim,
                      closed |-> IF r.closed
                                 THEN Append(c.closed, ClosedInfo(LastClosed(r.sim), None))
                                 ELSE c.closed,
                      calls  |-> Append(c.calls,
                                    [op |-> "check_sl_tp_condition",
                                     symbol |-> orders[j].symbol, id |-> orders[j].id,
                                     order |-> orders[j], ohlc |-> r.ohlc,
                                     closed |-> r.closed, close_price |-> r.close_price])],
                     orders, j + 1)
         IN  Checked(check_sl_tp_condition(c.sim, orders[j]))

\* variant: one slot more than symbol_max_orders
orders_capacity_with_spare_slot(env, sim, symbol) ==
    env.symbol_max_orders + 1 - Len(symbol_orders(sim, symbol))

\* orders_capacity = self.symbol_max_orders - len(self.simulator.symbol_orders(symbol))
orders_capacity_of(env, sim, symbol) ==
    env.symbol_max_orders - Len(symbol_orders(sim, symbol))

\* variant: a raw volume of zero buys
order_type_buying_at_zero(volume) == IF RGe(volume, RZero) THEN Buy ELSE Sell

\* order_type = OrderType.Buy if volume > 0. else OrderType.Sell
order_type_for(volume) == IF RGt(volume, RZero) THEN Buy ELSE Sell

\* variant: a hedged account without capacity still gets the order
CreateForSymbolIgnoringCapacity(env, sim, symbol, d, modified_volume) ==
    LET orders_capacity == orders_capacity_of(env, sim, symbol)
        base == [order_id |-> None, symbol |-> symbol,
                 hold_probability |-> d.hold_probability, hold |-> d.hold,
                 volume |-> d.volume, capacity |-> orders_capacity,
                 order_type |-> None, modified_volume |-> modified_volume,
                 fee |-> NaN, margin |-> NaN, fee_type |-> env.fee_type,
                 sl |-> env.sl, tp |-> env.tp, sl_tp_type |-> env.sl_tp_type,
                 trailing_distance |-> env.trailing_distance, error |-> ""]
        order_type == order_type_for(d.volume)
        Created(r) ==
            [sim |-> r.sim,
             info |-> IF r.order # None
                      THEN [base EXCEPT !.order_id = r.order.id,
                                        !.order_type = order_type,
                                        !.fee = env.fee, !.margin = r.order.margin]
                      ELSE [base EXCEPT !.error = r.error],
             calls |-> <<[op |-> "create_order", symbol |-> symbol,
                          id |-> IF r.order # None THEN r.order.id ELSE 0,
                          order_type |-> order_type, volume |-> modified_volume,
                          error |-> r.error]>>]
    IN  IF sim.hedge /\ orders_capacity = 0
        THEN [Created(create_order(sim, order_type, symbol, modified_volume, env.fee,
                                   env.fee_type, env.sl, env.tp, env.sl_tp_type,
                                   env.trailing_distance))
                  EXCEPT !.info = [base EXCEPT !.error = "cannot add more orders"]]
        ELSE IF ~d.hold
        THEN Created(create_order(sim, order_type, symbol, modified_volume, env.fee,
                                  env.fee_type, env.sl, env.tp, env.sl_tp_type,
                                  env.trailing_distance))
        ELSE [sim |-> sim, info |-> base, calls |-> <<>>]

\* what the code does after the two loops: capacity, the info record, and the
\* creation of a new order; [sim, info, calls]
CreateForSymbol(env, sim, symbol, d, modified_volume) ==
    LET orders_capacity == orders_capacity_of(env, sim, symbol)
        base == [order_id |-> None, symbol |-> symbol,
                 hold_probability |-> d.hold_probability, hold |-> d.hold,
                 volume |-> d.volume, capacity |-> orders_capacity,
                 order_type |-> None, modified_volume |-> modified_volume,
                 fee |-> NaN, margin |-> NaN, fee_type |-> env.fee_type,
                 sl |-> env.sl, tp |-> env.tp, sl_tp_type |-> env.sl_tp_type,
                 trailing_distance |-> env.trailing_distance, error |-> ""]
        order_type == order_type_for(d.volume)
        Created(r) ==
            [sim |-> r.sim,
             info |-> IF r.order # None
                      THEN [base EXCEPT !.order_id = r.order.id,
                                        !.order_type = order_type,
                                        !.fee = env.fee, !.margin = r.order.margin]
                      ELSE [base EXCEPT !.error = r.error],
             calls |-> <<[op |-> "create_order", symbol |-> symbol,
                          id |-> IF r.order # None THEN r.order.id ELSE 0,
                          order_type |-> order_type, volume |-> modified_volume,
                          error |-> r.error]>>]
    IN  IF sim.hedge /\ orders_capacity = 0
        THEN [sim |-> sim, info |-> [base EXCEPT !.error = "cannot add more orders"],
              calls |-> <<>>]
        ELSE IF ~d.hold
        THEN Created(create_order(sim, order_type, symbol, modified_volume, env.fee,
                                  env.fee_type, env.sl, env.tp, env.sl_tp_type,
                                  env.trailing_distance))
        ELSE [sim |-> sim, info |-> base, calls |-> <<>>]

\* variant: the new order is created before the closes and the trigger tests
ApplySymbolCreatingFirst(env, a, action, i) ==
    LET symbol  == env.trading_symbols[i + 1]
        orders0 == symbol_orders(a.sim, symbol)
        Checked(c3, c2) ==
            [sim |-> c2.sim,
             orders_info |-> Append(a.orders_info, c3.info),
             closed_orders_info |-> Append(a.closed_orders_info, c2.closed),
             calls |-> c2.calls]
        Closed(c3, c1) == Checked(c3, CheckOrders(c1, symbol_orders(c1.sim, symbol), 1))
        Created(d, c3) ==
            Closed(c3, CloseSelected(
                           [sim |-> c3.sim, closed |-> <<>>,
                            calls |-> a.calls \o c3.calls],
                           orders0, d.close_orders_probability,
                           orders_to_close_index(env, d.close_orders_probability,
                                                 Len(orders0))))
        Decoded(d) ==
            Created(d, CreateForSymbol(env, a.sim, symbol, d,
                                       _get_modified_volume(d.volume)))
    IN  Decoded(Decode(env, a.sim, action, i))

\* one pass of the loop over trading_symbols, for symbol number i (from 0);
\* a = [sim, orders_info, closed_orders_info, calls]
ApplySymbol(env, a, action, i) ==
    LET symbol  == env.trading_symbols[i + 1]
        orders0 == symbol_orders(a.sim, symbol)
        \* the end of the pass, after the new order (c3)
        Created(c2, c3) ==
            [sim |-> c3.sim,
             orders_info |-> Append(a.orders_info, c3.info),
             closed_orders_info |-> Append(a.closed_orders_info, c2.closed),
             calls |-> c2.calls \o c3.calls]
        \* after the trigger loop (c2)
        Checked(d, c2) ==
            Created(c2, CreateForSymbol(env, c2.sim, symbol, d,
                                        _get_modified_volume(d.volume)))
        \* after the explicit closes (c1)
        Closed(d, c1) ==
            Checked(d, CheckOrders(c1, OrdersToCheck(a.sim, c1.sim, symbol), 1))
        \* after decoding the action (d)
        Decoded(d) ==
            Closed(d, CloseSelected(
                          [sim |-> a.sim, closed |-> <<>>, calls |-> a.calls],
                          orders0, d.close_orders_probability,
                          orders_to_close_index(env, d.close_orders_probability,
                                                Len(orders0))))
    IN  Decoded(Decode(env, a.sim, action, i))

RECURSIVE ApplySymbols(_, _, _, _)
ApplySymbols(env, a, action, i) ==
    IF i >= Len(env.trading_symbols) THEN a
    ELSE ApplySymbols(env, ApplySymbol(env, a, action, i), action, i + 1)

_apply_action(env, sim, action) ==
    ApplySymbols(env, [sim |-> sim, orders_info |-> <<>>,
                       closed_orders_info |-> <<>>, calls |-> <<>>], action, 0)

(***************************************************************************)
(* Bounds and input domains                                                *)
(***************************************************************************)
NumTimePoints == 4      \* len(time_points)
MaxWindow == 2          \* window_size ranges over 1..MaxWindow
MaxOrders == 2          \* symbol_max_orders ranges over 1..MaxOrders
MaxFuzzy == 101         \* fuzzy_terms_generator is applied to 1..MaxFuzzy

Symbols == <<"EURUSD", "GBPUSD">>

\* irregularly spaced time points 0, 1, 4, 9, ...
TimePoints == [i \in 1..NumTimePoints |-> (i - 1) * (i - 1)]

Bar(low, high, close) == [Low |-> RInt(low), High |-> RInt(high), Close |-> RInt(close)]

Bars == {Bar(100, 100, 100), Bar(94, 100, 98), Bar(100, 106, 102), Bar(94, 106, 100)}

Logits == {RZero, RInt(1)}

RawVolumes == {RInt(-1), RZero, RInt(1)}

InitialBalance == RInt(250)

Fee == Rat(1, 2)

\* (sl_tp_type, sl, tp) as passed to the constructor
SlTpChoices ==
    {<<None, None, None>>,
     <<Pip, RInt(5), RInt(5)>>, <<Pip, RInt(5), None>>, <<Pip, None, RInt(5)>>,
     <<Percent, Rat(1, 20), Rat(1, 20)>>, <<Percent, Rat(1, 20), None>>,
     <<Percent, None, Rat(1, 20)>>}

Thresholds == {Rat(1, 2), Rat(3, 4)}

(***************************************************************************)
(* MtEnv: observations                                                     *)
(***************************************************************************)
_get_order_detail_list(env, sim, order) ==
    LET current_close == price_at(sim, order.symbol).Close
        normalized == /\ env.normalize_observation
                      /\ order.entry_price # RZero /\ order.volume # RZero
        profit == IF normalized
                  THEN RDiv(order.profit, RMul(order.entry_price, order.volume))
                  ELSE order.profit
        entry_price ==
            IF ~normalized THEN order.entry_price
            ELSE IF order.type = Buy
            THEN RSub(RDiv(current_close, order.entry_price), ROne)
            ELSE RSub(RDiv(order.entry_price, current_close), ROne)
    IN  IF env.orders_observation_detail_count = 3
        THEN <<entry_price, order.volume, profit>>
        ELSE <<order.volume, profit>>

\* the orders tensor: symbol, then slot, then detail; unset slots are zeros
_get_orders(env, sim) ==
    [i \in 1..Len(env.trading_symbols) |->
        LET os == symbol_orders(sim, env.trading_symbols[i])
        IN  [j \in 1..env.symbol_max_orders |->
                IF j <= Len(os) THEN _get_order_detail_list(env, sim, os[j])
                ELSE [d \in 1..env.orders_observation_detail_count |-> RZero]]]

\* the info reset returns: orders[i, j] = [entry_price, volume, profit]
_get_info(env, sim) ==
    LET scale(x) == IF env.normalize_observation THEN RDiv(x, sim.initial_balance) ELSE x
    IN  [balance |-> scale(sim.balance), equity |-> scale(sim.equity),
         margin |-> scale(sim.margin), free_margin |-> scale(free_margin(sim)),
         orders |->
             [i \in 1..Len(env.trading_symbols) |->
                 LET os == symbol_orders(sim, env.trading_symbols[i])
                 IN  [j \in 1..env.symbol_max_orders |->
                         IF j <= Len(os)
                         THEN <<os[j].entry_price, os[j].volume, os[j].profit>>
                         ELSE [d \in 1..env.orders_observation_detail_count |-> RZero]]]]

_get_balance_equity_margin(env, sim) ==
    LET scale(x) == IF env.normalize_observation THEN RDiv(x, sim.initial_balance) ELSE x
    IN  <<scale(sim.balance), scale(sim.equity), scale(sim.margin),
          scale(free_margin(sim))>>

\* np.array(list(orders.flatten()) + [balance, equity, margin, free_margin])
_get_orders_balance_equity_margin_one_step_flattened(env, sim) ==
    LET orders == _get_orders(env, sim)
        m == env.symbol_max_orders
        c == env.orders_observation_detail_count
        n == Len(env.trading_symbols) * m * c
    IN  [p \in 1..n |->
            orders[((p - 1) \div (m * c)) + 1][(((p - 1) \div c) % m) + 1][((p - 1) % c) + 1]]
        \o _get_balance_equity_margin(env, sim)

\* variant: the new row is added at the bottom and the top row is dropped
add_row_shift_up(new_row, arr) == SubSeq(arr, 2, Len(arr)) \o <<new_row>>

\* np.vstack((new_row, arr[:-1]))
add_row_shift_down(new_row, arr) == <<new_row>> \o SubSeq(arr, 1, Len(arr) - 1)

update_orders_balance_equity_margin_array(env, sim, arr) ==
    add_row_shift_down(_get_orders_balance_equity_margin_one_step_flattened(env, sim), arr)

RECURSIVE UpdateTimes(_, _, _, _)
UpdateTimes(env, sim, arr, n) ==
    IF n = 0 THEN arr
    ELSE UpdateTimes(env, sim, update_orders_balance_equity_margin_array(env, sim, arr), n - 1)

\* variant: the buffer is updated once instead of window_size times
_init_with_one_update(env, sim, arr) == UpdateTimes(env, sim, arr, 1)

_init_orders_balance_equity_margin_array(env, sim, arr) ==
    UpdateTimes(env, sim, arr, env.window_size)

\* a bound of a Python slice of a sequence of n items
SliceBound(i, n) == IF i < 0 THEN (IF i + n < 0 THEN 0 ELSE i + n) ELSE (IF i > n THEN n ELSE i)

\* signal_features[(tick - window_size + 1):(tick + 1)]: the rows of the
\* feature table the observation holds
FeatureWindow(env, tick_index) ==
    LET n == Len(env.signal_features)
    IN  SubSeq(env.signal_features,
               SliceBound(tick_index - env.window_size + 1, n) + 1,
               SliceBound(tick_index + 1, n))

_get_observation(env, sim, tick_index, arr) ==
    IF env.observation_mode = 0
    THEN LET s == _get_balance_equity_margin(env, sim)
         IN  [balance |-> s[1], equity |-> s[2], margin |-> s[3], free_margin |-> s[4],
              features |-> FeatureWindow(env, tick_index), orders |-> _get_orders(env, sim)]
    ELSE [features |-> FeatureWindow(env, tick_index), array |-> arr]

(***************************************************************************)
(* MtEnv: info records and reward                                          *)
(***************************************************************************)
\* _create_info; the orders and closed_orders of a history entry are kept for
\* the latest step only, in the variable info
_create_info(sim, step_reward) ==
    [balance |-> sim.balance, equity |-> sim.equity, margin |-> sim.margin,
     free_margin |-> free_margin(sim), margin_level |-> margin_level(sim),
     step_reward |-> step_reward]

\* variant: the reward is measured from the entry reset wrote
_calculate_reward_since_reset(sim, hist) == RSub(sim.equity, hist[1].equity)

\* variant: the new entry takes the place of the last one
history_replace_last(hist, entry) == [hist EXCEPT ![Len(hist)] = entry]

\* self.history.append(info)
history_append(hist, entry) == Append(hist, entry)

_calculate_reward(sim, hist) == RSub(sim.equity, hist[Len(hist)].equity)

(***************************************************************************)
(* State                                                                   *)
(***************************************************************************)
VARIABLES
    env,                \* the attributes set by MtEnv.__init__
    original_simulator, \* self.original_simulator
    simulator,          \* self.simulator
    current_tick,       \* self._current_tick
    done,               \* self._done
    history,            \* self.history
    orders_balance_equity_margin_array,
    observation,        \* the observation last returned
    info,               \* the info last returned
    calls,              \* the calls the last step made, in order
    last_action,        \* the action the last step was given
    reset_from,         \* after a reset: the state it was called in
    fx, ftable,         \* fuzzy_terms_generator: its argument and its result
    volume_args, volume_result,
                        \* _get_modified_volume: its arguments and its result
    init_args, init_outcome
                        \* MtEnv.__init__: its arguments and its outcome

vars == <<env, original_simulator, simulator, current_tick, done, history,
          orders_balance_equity_margin_array, observation, info, calls, last_action,
          reset_from, fx, ftable, volume_args, volume_result, init_args, init_outcome>>

\* the value of an attribute the constructor leaves at NotImplemented
NotImplementedTick == -1
NotImplementedHistory == <<>>

\* variant: the episode starts one index later
_start_tick_at_window_size(e) == e.window_size

_start_tick(e) == e.window_size - 1

\* variant: the terminal index is one index earlier
_end_tick_one_early(e) == Len(e.time_points) - 2

_end_tick(e) == Len(e.time_points) - 1

(***************************************************************************)
(* Construction                                                            *)
(***************************************************************************)
BaseSimulator(hedge, symbols) ==
    [orders |-> <<>>, closed_orders |-> <<>>,
     balance |-> InitialBalance, equity |-> InitialBalance, margin |-> RZero,
     initial_balance |-> InitialBalance, hedge |-> hedge,
     current_time |-> 0, prices |-> [s \in {symbols[i] : i \in 1..Len(symbols)} |-> Bar(100, 100, 100)]]

\* the feature table: one row per row of the market data, whatever the time
\* points are; a row is written as its index (from 0)
_process_data(data_rows) == [r \in 1..data_rows |-> r - 1]

\* the rows the market data may have: as many as there are time points (the
\* time points are its index) or one fewer (the caller's time points go on
\* after the data ends)
DataRows == {NumTimePoints - 1, NumTimePoints}

\* MtEnv.__init__ on arguments that pass its validations
Env(p) ==
    [trading_symbols |-> SubSeq(Symbols, 1, p.nsym),
     window_size |-> p.window_size, time_points |-> TimePoints,
     signal_features |-> _process_data(p.data_rows),
     hold_threshold |-> p.hold_threshold, close_threshold |-> p.close_threshold,
     fee |-> Fee, fee_type |-> "fixed",
     sl_tp_type |-> p.sltp[1], sl |-> p.sltp[2], tp |-> p.sltp[3],
     trailing_distance |-> p.trailing_distance,
     symbol_max_orders |-> IF ~p.hedge THEN 1 ELSE p.symbol_max_orders,
     observation_mode |-> p.observation_mode,
     normalize_observation |-> p.normalize_observation,
     orders_observation_detail_count |-> p.orders_observation_detail_count,
     action_mode |-> p.action_mode,
     discrete_actions_count |-> p.discrete_actions_count,
     balance_or_free_margin_for_volume_computation |-> p.balance_basis]

Params ==
    [nsym : {1, 2}, window_size : 1..MaxWindow,
     hold_threshold : Thresholds, close_threshold : Thresholds,
     sltp : SlTpChoices, trailing_distance : {None, ROne},
     hedge : BOOLEAN, symbol_max_orders : 1..MaxOrders,
     observation_mode : {0, 1}, normalize_observation : BOOLEAN,
     orders_observation_detail_count : {2, 3},
     action_mode : {0, 1, 2}, discrete_actions_count : {1, 3, 5},
     balance_basis : BOOLEAN, data_rows : DataRows]

\* the constructor arguments the model explores
Canonical(p) ==
    /\ p.action_mode # 1 => p.discrete_actions_count = 3 /\ p.balance_basis
    /\ p.action_mode = 1 => p.nsym = 1 /\ ~p.hedge
    /\ ~p.hedge => p.symbol_max_orders = 1
    /\ p.trailing_distance # None => p.sltp[2] # None

DefaultObservation(p) ==
    /\ p.observation_mode = 0 /\ p.normalize_observation
    /\ p.orders_observation_detail_count = 2

DefaultThresholds(p) == p.hold_threshold = Rat(1, 2) /\ p.close_threshold = Rat(1, 2)

NoSlTp(p) == p.sltp = <<None, None, None>>

OneSymbolContinuous(p) == p.action_mode = 0 /\ p.nsym = 1

\* three steps of one non-hedged symbol under a trailing stop-loss
TrailingEpisodes(p) ==
    /\ OneSymbolContinuous(p) /\ p.window_size = 1 /\ ~p.hedge
    /\ p.sltp = <<Pip, RInt(5), None>> /\ p.trailing_distance = ROne
    /\ DefaultObservation(p) /\ DefaultThresholds(p)

\* two steps under every SL/TP configuration, trailing or not
TriggerEpisodes(p) ==
    /\ OneSymbolContinuous(p) /\ p.window_size = 2 /\ ~p.hedge
    /\ DefaultObservation(p) /\ DefaultThresholds(p)

\* two steps under every pair of thresholds
ThresholdEpisodes(p) ==
    /\ OneSymbolContinuous(p) /\ p.window_size = 2 /\ ~p.hedge
    /\ NoSlTp(p) /\ DefaultObservation(p)

\* hedged accounts: three steps with MaxOrders slots, two steps with one
HedgedEpisodes(p) ==
    /\ OneSymbolContinuous(p) /\ p.hedge /\ p.trailing_distance = None
    /\ \/ /\ p.window_size = 1 /\ p.symbol_max_orders = MaxOrders
          /\ p.sltp = <<Pip, RInt(5), RInt(5)>>
       \/ p.window_size = 2 /\ p.symbol_max_orders = 1 /\ NoSlTp(p)
    /\ DefaultObservation(p) /\ DefaultThresholds(p)

TwoSymbolEpisodes(p) ==
    /\ p.action_mode = 0 /\ p.nsym = 2 /\ p.window_size = 2 /\ ~p.hedge
    /\ p.sltp = <<Pip, RInt(5), RInt(5)>> /\ p.trailing_distance = ROne
    /\ DefaultObservation(p) /\ DefaultThresholds(p)

DiscreteEpisodes(p) ==
    /\ p.action_mode = 1 /\ p.window_size = 2
    /\ NoSlTp(p) \/ (p.sltp = <<Pip, RInt(5), RInt(5)>> /\ p.trailing_distance = None)
    /\ DefaultObservation(p) /\ DefaultThresholds(p)

StructuredEpisodes(p) ==
    /\ p.action_mode = 2 /\ p.nsym = 1 /\ p.window_size = 2 /\ ~p.hedge /\ NoSlTp(p)
    /\ DefaultObservation(p) /\ DefaultThresholds(p)

\* two steps over time points that go on after the market data ends
ShortDataEpisodes(p) ==
    /\ OneSymbolContinuous(p) /\ p.window_size = 2 /\ ~p.hedge /\ NoSlTp(p)
    /\ DefaultObservation(p) /\ DefaultThresholds(p)
    /\ p.data_rows = NumTimePoints - 1

\* the rolling account-state buffer as the observation
BufferEpisodes(p) ==
    /\ OneSymbolContinuous(p) /\ p.window_size = 2 /\ ~p.hedge /\ NoSlTp(p)
    /\ p.observation_mode = 1 /\ DefaultThresholds(p)

Scenario(p) ==
    /\ Canonical(p)
    /\ \/ /\ p.data_rows = NumTimePoints
          /\ \/ TrailingEpisodes(p)
             \/ TriggerEpisodes(p)
             \/ ThresholdEpisodes(p)
             \/ HedgedEpisodes(p)
             \/ TwoSymbolEpisodes(p)
             \/ DiscreteEpisodes(p)
             \/ StructuredEpisodes(p)
             \/ BufferEpisodes(p)
       \/ ShortDataEpisodes(p)

Init ==
    /\ \E p \in Params :
        /\ Scenario(p)
        /\ env = Env(p)
        /\ original_simulator = BaseSimulator(p.hedge, SubSeq(Symbols, 1, p.nsym))
        /\ simulator = BaseSimulator(p.hedge, SubSeq(Symbols, 1, p.nsym))
        /\ orders_balance_equity_margin_array =
               [r \in 1..p.window_size |-> 
                   [c \in 1..(p.nsym * (IF ~p.hedge THEN 1 ELSE p.symbol_max_orders)
                              * p.orders_observation_detail_count + 4) |-> RZero]]
    /\ current_tick = NotImplementedTick
    /\ done = TRUE        \* NotImplemented, which is truthy
    /\ history = NotImplementedHistory
    /\ observation = None
    /\ info = None
    /\ calls = <<>>
    /\ last_action = None
    /\ reset_from = None
    /\ fx = 0
    /\ ftable = None
    /\ volume_args = None
    /\ volume_result = None
    /\ init_args = None
    /\ init_outcome = None

(***************************************************************************)
(* The actions a caller may pass to step                                   *)
(***************************************************************************)
\* with two symbols the raw volume is always 1, to keep the action set small;
\* with several slots per symbol it may also be 2, whose margin leaves too
\* little free margin for another order
Volumes(e) ==
    IF Len(e.trading_symbols) > 1 THEN {RInt(1)}
    ELSE IF e.symbol_max_orders > 1 THEN RawVolumes \cup {RInt(2)}
    ELSE RawVolumes

ContinuousActions(e) ==
    LET k == e.symbol_max_orders + 2
    IN  {a \in [1..(k * Len(e.trading_symbols)) -> Logits \cup Volumes(e)] :
            \A q \in DOMAIN a : a[q] \in (IF q % k = 0 THEN Volumes(e) ELSE Logits)}

DiscreteActions(e) == 0..(Len(e.trading_symbols) * e.discrete_actions_count - 1)

StructuredActions(e) ==
    [1..Len(e.trading_symbols) ->
        {<<mask, hold, <<volume>>>> : mask \in [1..e.symbol_max_orders -> {0, 1}],
                                      hold \in {0, 1}, volume \in Volumes(e)}]

Actions(e) ==
    IF e.action_mode = 0 THEN ContinuousActions(e)
    ELSE IF e.action_mode = 1 THEN DiscreteActions(e)
    ELSE StructuredActions(e)

\* the bars the market data holds for the trading symbols at one time point:
\* any bar for one non-hedged symbol, the flat or the wide bar for two
\* symbols, the flat bar for a hedged account
BarChoices(e) ==
    IF e.symbol_max_orders > 1 THEN {Bar(100, 100, 100)}
    ELSE IF Len(e.trading_symbols) > 1 THEN {Bar(100, 100, 100), Bar(94, 106, 100)}
    ELSE Bars

Prices(e) == [{e.trading_symbols[i] : i \in 1..Len(e.trading_symbols)} -> BarChoices(e)]

(***************************************************************************)
(* reset                                                                   *)
(***************************************************************************)
\* variant: the clock of the copy is left where the base simulator has it
reset_without_clock(e, original, arr0, prices) ==
    LET start == _start_tick(e)
        sim   == [original EXCEPT !.prices = prices]
        arr   == _init_orders_balance_equity_margin_array(e, sim, arr0)
        entry == _create_info(sim, None)
    IN  [current_tick |-> start, done |-> FALSE, simulator |-> sim,
         history |-> <<entry>>,
         orders_balance_equity_margin_array |-> arr,
         observation |-> _get_observation(e, sim, start, arr),
         info |-> _get_info(e, sim)]

\* what reset leaves in the environment's fields, and what it returns
reset(e, original, arr0, prices) ==
    LET start == _start_tick(e)
        sim   == [original EXCEPT !.current_time = e.time_points[start + 1],
                                  !.prices = prices]
        arr   == _init_orders_balance_equity_margin_array(e, sim, arr0)
        entry == _create_info(sim, None)
    IN  [current_tick |-> start, done |-> FALSE, simulator |-> sim,
         history |-> <<entry>>,
         orders_balance_equity_margin_array |-> arr,
         observation |-> _get_observation(e, sim, start, arr),
         info |-> _get_info(e, sim)]

\* what is recorded of the state a reset is called in: whether the environment
\* was fresh or terminated, whether the episode had traded, and whether the
\* buffer held rows other than the ones the reset writes
ResetFrom(new_array) ==
    [fresh  |-> history = NotImplementedHistory,
     done   |-> done,
     traded |-> simulator.orders # <<>> \/ simulator.closed_orders # <<>>,
     stale  |-> orders_balance_equity_margin_array # new_array]

Reset ==
    \E prices \in Prices(env) :
        \E r \in {reset(env, original_simulator, orders_balance_equity_margin_array, prices)} :
            /\ done' = r.done
            /\ current_tick' = r.current_tick
            /\ simulator' = r.simulator
            /\ history' = r.history
            /\ orders_balance_equity_margin_array' = r.orders_balance_equity_margin_array
            /\ observation' = r.observation
            /\ info' = r.info
            /\ calls' = <<>>
            /\ last_action' = None
            /\ reset_from' = ResetFrom(r.orders_balance_equity_margin_array)
            /\ UNCHANGED <<env, original_simulator, fx, ftable, volume_args,
                           volume_result, init_args, init_outcome>>

(***************************************************************************)
(* step                                                                    *)
(***************************************************************************)
\* variant: orders_sl_update runs before _apply_action
TrailThenApply(e, sim0, action) ==
    LET Applied(t, a) == [sim |-> a.sim, applied |-> a, calls |-> t.calls \o a.calls]
        Trailed(t) == Applied(t, _apply_action(e, t.sim, action))
    IN  Trailed(orders_sl_update(e, sim0))

\* the first two statements of step: _apply_action, then orders_sl_update
ApplyThenTrail(e, sim0, action) ==
    LET Trailed(a, t) == [sim |-> t.sim, applied |-> a, calls |-> a.calls \o t.calls]
        Applied(a) == Trailed(a, orders_sl_update(e, a.sim))
    IN  Applied(_apply_action(e, sim0, action))

\* what step leaves in the environment's fields, what it returns, and the
\* calls it made, in order; step is only called on an episode that is not done
step(e, sim0, tick0, hist, arr, action, prices) ==
    LET tick1 == tick0 + 1
        dt    == e.time_points[tick1 + 1] - e.time_points[tick1]
        \* from _calculate_reward on
        Rewarded(t, sim, step_reward, entry) ==
            [current_tick |-> tick1,
             done |-> (tick1 = _end_tick(e)),
             simulator |-> sim,
             step_reward |-> step_reward,
             info |-> [orders |-> t.applied.orders_info,
                       closed_orders |-> t.applied.closed_orders_info] @@ entry,
             observation |-> _get_observation(e, sim, tick1, arr),
             history |-> history_append(hist, entry),
             orders_balance_equity_margin_array |->
                 IF e.observation_mode = 1
                 THEN update_orders_balance_equity_margin_array(e, sim, arr)
                 ELSE arr,
             calls |-> t.calls
                           \o <<[op |-> "tick", symbol |-> None, id |-> 0, delta |-> dt]>>]
        Ticked(t, sim, step_reward) ==
            Rewarded(t, sim, step_reward, _create_info(sim, step_reward))
        \* after the simulator's tick (sim)
        Updated(t, sim) == Ticked(t, sim, _calculate_reward(sim, hist))
        \* after _apply_action and orders_sl_update (t)
        Acted(t) == Updated(t, tick(t.sim, dt, prices))
    IN  Acted(ApplyThenTrail(e, sim0, action))

\* variant: the episode works on the base simulator itself, not on a copy
StepOnOriginal ==
    /\ history # NotImplementedHistory
    /\ ~done
    /\ \E action \in Actions(env), prices \in Prices(env) :
        \E r \in {step(env, simulator, current_tick, history,
                       orders_balance_equity_margin_array, action, prices)} :
            /\ current_tick' = r.current_tick
            /\ done' = r.done
            /\ simulator' = r.simulator
            /\ original_simulator' = r.simulator
            /\ info' = r.info
            /\ observation' = r.observation
            /\ history' = r.history
            /\ orders_balance_equity_margin_array' = r.orders_balance_equity_margin_array
            /\ calls' = r.calls
            /\ last_action' = action
            /\ reset_from' = None
            /\ UNCHANGED <<env, fx, ftable, volume_args, volume_result, init_args,
                           init_outcome>>

Step ==
    /\ history # NotImplementedHistory
    /\ ~done
    /\ \E action \in Actions(env), prices \in Prices(env) :
        \E r \in {step(env, simulator, current_tick, history,
                       orders_balance_equity_margin_array, action, prices)} :
            /\ current_tick' = r.current_tick
            /\ done' = r.done
            /\ simulator' = r.simulator
            /\ info' = r.info
            /\ observation' = r.observation
            /\ history' = r.history
            /\ orders_balance_equity_margin_array' = r.orders_balance_equity_margin_array
            /\ calls' = r.calls
            /\ last_action' = action
            /\ reset_from' = None
            /\ UNCHANGED <<env, original_simulator, fx, ftable, volume_args,
                           volume_result, init_args, init_outcome>>

Next == Reset \/ Step

Spec == Init /\ [][Next]_vars

(***************************************************************************)
(* fuzzy_terms_generator on its own: the table of every count up to        *)
(* MaxFuzzy                                                                *)
(***************************************************************************)
InitFuzzy ==
    /\ fx \in 1..MaxFuzzy
    /\ ftable = None
    /\ env = None /\ original_simulator = None /\ simulator = None
    /\ current_tick = NotImplementedTick /\ done = TRUE
    /\ history = NotImplementedHistory
    /\ orders_balance_equity_margin_array = None
    /\ observation = None /\ info = None /\ calls = <<>> /\ last_action = None
    /\ reset_from = None /\ volume_args = None /\ volume_result = None
    /\ init_args = None /\ init_outcome = None

GenerateFuzzy ==
    /\ ftable = None
    /\ ftable' = fuzzy_terms_generator(fx)
    /\ UNCHANGED <<fx, env, original_simulator, simulator, current_tick, done, history,
                   orders_balance_equity_margin_array, observation, info, calls,
                   last_action, reset_from, volume_args, volume_result, init_args,
                   init_outcome>>

NextFuzzy == GenerateFuzzy

SpecFuzzy == InitFuzzy /\ [][NextFuzzy]_vars

(***************************************************************************)
(* _get_modified_volume on its own: raw volumes of either sign under       *)
(* several volume limits                                                   *)
(***************************************************************************)
\* (volume_min, volume_max, volume_step); the last one has a volume_min that
\* is not a multiple of volume_step
SymbolInfos ==
    {[volume_min |-> Rat(1, 100), volume_max |-> RInt(10), volume_step |-> Rat(1, 100)],
     [volume_min |-> RInt(1), volume_max |-> RInt(2), volume_step |-> RInt(1)],
     [volume_min |-> Rat(1, 2), volume_max |-> Rat(5, 2), volume_step |-> Rat(1, 2)],
     [volume_min |-> Rat(7, 500), volume_max |-> RInt(10), volume_step |-> Rat(1, 100)]}

VolumeMagnitudes ==
    {RZero, Rat(34, 10000), Rat(1, 100), Rat(1, 40), Rat(7, 200), Rat(1, 2), Rat(3, 4),
     ROne, Rat(5, 4), Rat(3, 2), RInt(2), Rat(5, 2), RInt(7), RInt(10), RInt(12)}

RawVolumeInputs == VolumeMagnitudes \cup {RSub(RZero, m) : m \in VolumeMagnitudes}

InitVolume ==
    /\ volume_args \in [si : SymbolInfos, volume : RawVolumeInputs]
    /\ volume_result = None
    /\ fx = 0 /\ ftable = None
    /\ env = None /\ original_simulator = None /\ simulator = None
    /\ current_tick = NotImplementedTick /\ done = TRUE
    /\ history = NotImplementedHistory
    /\ orders_balance_equity_margin_array = None
    /\ observation = None /\ info = None /\ calls = <<>> /\ last_action = None
    /\ reset_from = None /\ init_args = None /\ init_outcome = None

ModifyVolume ==
    /\ volume_result = None
    /\ volume_result' = modified_volume_for(volume_args.si, volume_args.volume)
    /\ UNCHANGED <<volume_args, fx, ftable, env, original_simulator, simulator,
                   current_tick, done, history, orders_balance_equity_margin_array,
                   observation, info, calls, last_action, reset_from, init_args,
                   init_outcome>>

NextVolume == ModifyVolume

SpecVolume == InitVolume /\ [][NextVolume]_vars

(***************************************************************************)
(* Structured-mode episodes during which the caller may change the         *)
(* thresholds with set_thresholds                                          *)
(***************************************************************************)
\* set_thresholds(close_threshold, hold_threshold): an argument of None
\* leaves the attribute as it is
set_thresholds(e, close_threshold, hold_threshold) ==
    [e EXCEPT !.close_threshold = IF close_threshold # None THEN close_threshold ELSE @,
              !.hold_threshold = IF hold_threshold # None THEN hold_threshold ELSE @]

\* the arguments a caller passes to set_thresholds
ThresholdArgs == {None, Rat(1, 2), ROne, Rat(3, 2)}

SetThresholds ==
    /\ \E close_threshold \in ThresholdArgs, hold_threshold \in ThresholdArgs :
           env' = set_thresholds(env, close_threshold, hold_threshold)
    /\ calls' = <<>>
    /\ last_action' = None
    /\ reset_from' = None
    /\ UNCHANGED <<original_simulator, simulator, current_tick, done, history,
                   orders_balance_equity_margin_array, observation, info,
                   fx, ftable, volume_args, volume_result, init_args, init_outcome>>

InitThresholds == Init /\ env.action_mode = 2

NextThresholds == Reset \/ Step \/ SetThresholds

SpecThresholds == InitThresholds /\ [][NextThresholds]_vars

(***************************************************************************)
(* MtEnv.__init__ on its own: arguments that pass its validations and      *)
(* arguments that do not                                                   *)
(***************************************************************************)
AssertionError(message) == [error |-> "AssertionError", message |-> message]

\* variant: a hold_threshold of exactly 1 is rejected
hold_threshold_below_one(hold_threshold) ==
    RLe(RZero, hold_threshold) /\ RLt(hold_threshold, ROne)

\* 0. <= hold_threshold <= 1.
hold_threshold_in_range(hold_threshold) ==
    RLe(RZero, hold_threshold) /\ RLe(hold_threshold, ROne)

\* the outcome of MtEnv(original_simulator, **a): the error raised ("" when
\* none) and the attributes set
__init__(original, a) ==
    IF DOMAIN original.prices = {}
    THEN AssertionError("no data available")
    ELSE IF ~(Len(a.trading_symbols) > 0)
    THEN AssertionError("no trading symbols provided")
    ELSE IF ~hold_threshold_in_range(a.hold_threshold)
    THEN AssertionError("'hold_threshold' must be in range [0., 1.]")
    ELSE IF \E i \in 1..Len(a.trading_symbols) :
                a.trading_symbols[i] \notin DOMAIN original.prices
    THEN AssertionError("symbol not found")
    ELSE IF ~(Len(a.time_points) > a.window_size)
    THEN AssertionError("not enough time points provided")
    ELSE IF fuzzy_terms_generator(a.discrete_actions_count).error # ""
    THEN [error |-> fuzzy_terms_generator(a.discrete_actions_count).error,
          message |-> "x should be an odd number"]
    ELSE [error |-> "", message |-> "",
          env |-> [Env([a EXCEPT !.hedge = original.hedge])
                       EXCEPT !.trading_symbols = a.trading_symbols,
                              !.time_points = a.time_points]]

UnknownSymbol == "XAUUSD"

\* one more window size than the episodes use, so that a window may be as
\* long as the list of time points
InitWindows == 1..(MaxWindow + 1)

InitArgs ==
    [market : {<<>>, Symbols},
     trading_symbols : {<<>>, <<Symbols[1]>>, <<UnknownSymbol>>, Symbols,
                        <<Symbols[1], UnknownSymbol>>},
     time_points : {SubSeq(TimePoints, 1, n) : n \in 1..NumTimePoints},
     window_size : InitWindows,
     hold_threshold : {Rat(-1, 2), RZero, Rat(1, 2), ROne, Rat(3, 2)},
     close_threshold : {Rat(1, 2)},
     discrete_actions_count : 1..4,
     action_mode : {0, 1},
     nsym : {0}, sltp : {<<None, None, None>>}, trailing_distance : {None},
     hedge : {FALSE}, symbol_max_orders : {1},
     observation_mode : {0}, normalize_observation : {TRUE},
     orders_observation_detail_count : {2}, balance_basis : {TRUE},
     data_rows : {NumTimePoints}]

InitInit ==
    /\ init_args \in InitArgs
    /\ init_outcome = None
    /\ env = None /\ original_simulator = None /\ simulator = None
    /\ current_tick = NotImplementedTick /\ done = TRUE
    /\ history = NotImplementedHistory
    /\ orders_balance_equity_margin_array = None
    /\ observation = None /\ info = None /\ calls = <<>> /\ last_action = None
    /\ reset_from = None /\ fx = 0 /\ ftable = None
    /\ volume_args = None /\ volume_result = None

Construct ==
    /\ init_outcome = None
    /\ \E r \in {__init__(BaseSimulator(init_args.hedge, init_args.market), init_args)} :
        /\ init_outcome' = [error |-> r.error, message |-> r.message]
        /\ env' = IF r.error = "" THEN r.env ELSE None
        /\ original_simulator' =
               IF r.error = "" THEN BaseSimulator(init_args.hedge, init_args.market)
               ELSE None
    /\ UNCHANGED <<init_args, simulator, current_tick, done, history,
                   orders_balance_equity_margin_array, observation, info, calls,
                   last_action, reset_from, fx, ftable, volume_args, volume_result>>

NextInit == Construct

SpecInit == InitInit /\ [][NextInit]_vars

(***************************************************************************)
(* Properties                                                              *)
(***************************************************************************)
\* the last operation on the environment was a step
StepTaken == calls # <<>>

\* this transition is a step
StepAction == history # NotImplementedHistory /\ Len(history') = Len(history) + 1

CallsIn(cs, op) == {k \in 1..Len(cs) : cs[k].op = op}

CallsOf(op) == CallsIn(calls, op)

Phase(c) ==
    IF c.op = "close_order" THEN 1
    ELSE IF c.op = "check_sl_tp_condition" THEN 2
    ELSE IF c.op = "create_order" THEN 3
    ELSE 4

\* the calls _apply_action made
ApplyCalls == {k \in 1..Len(calls) : Phase(calls[k]) <= 3}

SymbolIndex(symbol) == CHOOSE i \in 1..Len(Symbols) : Symbols[i] = symbol

\* the threshold prices of an order, written out from the order's fields
LossThreshold(o) ==
    IF o.sl_tp_type = Pip
    THEN (IF o.type = Buy THEN RSub(o.entry_price, o.sl) ELSE RAdd(o.entry_price, o.sl))
    ELSE (IF o.type = Buy THEN RMul(o.entry_price, RSub(ROne, o.sl))
          ELSE RMul(o.entry_price, RAdd(ROne, o.sl)))

ProfitThreshold(o) ==
    IF o.sl_tp_type = Pip
    THEN (IF o.type = Buy THEN RAdd(o.entry_price, o.tp) ELSE RSub(o.entry_price, o.tp))
    ELSE (IF o.type = Buy THEN RMul(o.entry_price, RAdd(ROne, o.tp))
          ELSE RMul(o.entry_price, RSub(ROne, o.tp)))

SlSatisfied(o, bar) ==
    /\ o.sl # None
    /\ IF o.type = Buy THEN RLe(bar.Low, LossThreshold(o)) ELSE RGe(bar.High, LossThreshold(o))

TpSatisfied(o, bar) ==
    /\ o.tp # None
    /\ IF o.type = Buy THEN RGe(bar.High, ProfitThreshold(o))
       ELSE RLe(bar.Low, ProfitThreshold(o))

OpenIds(sim) == {sim.orders[j].id : j \in 1..Len(sim.orders)}

ClosedIds(sim) == {sim.closed_orders[j].id : j \in 1..Len(sim.closed_orders)}

ClosedOrder(sim, id) ==
    CHOOSE o \in {sim.closed_orders[j] : j \in 1..Len(sim.closed_orders)} : o.id = id

\* C1, as stated: within one step every explicit close, of any symbol, comes
\* before every SL/TP trigger test, and every trigger test before every
\* creation of a new order, the phases running across all symbols.
C1_PhasesAcrossSymbols ==
    \A i, j \in ApplyCalls : i < j => Phase(calls[i]) <= Phase(calls[j])

\* C1, amended: within one step the symbols are handled one after the other,
\* in the order of trading_symbols, and for each symbol its explicit closes
\* come before its trigger tests, which come before its creation of a new
\* order.
C1_PhasesPerSymbol ==
    \A i, j \in ApplyCalls :
        i < j =>
            /\ SymbolIndex(calls[i].symbol) <= SymbolIndex(calls[j].symbol)
            /\ calls[i].symbol = calls[j].symbol => Phase(calls[i]) <= Phase(calls[j])

\* a step that closed one order of a symbol, tested another and then created
\* a third
C1_Witness ==
    \E i, j, k \in ApplyCalls :
        /\ i < j /\ j < k
        /\ calls[i].op = "close_order"
        /\ calls[j].op = "check_sl_tp_condition"
        /\ calls[k].op = "create_order" /\ calls[k].id # 0
        /\ calls[i].symbol = calls[j].symbol /\ calls[j].symbol = calls[k].symbol

\* C2, as stated: when the bar satisfies both the SL and the TP condition of
\* an order that has both set, the trigger test closes the order at the SL
\* threshold.
C2_BothSatisfiedClosesAtSl ==
    \A k \in CallsOf("check_sl_tp_condition") :
        SlSatisfied(calls[k].order, calls[k].ohlc) /\ TpSatisfied(calls[k].order, calls[k].ohlc)
            => calls[k].closed /\ calls[k].close_price = LossThreshold(calls[k].order)

\* C3: the trigger test of an order with sl_tp_type pip or percent closes it
\* iff its SL or its TP condition holds on the bar, an unset side counting as
\* not satisfied; when exactly one side is satisfied the close price is that
\* side's threshold; a closed order has left the open orders, one not closed
\* is still open.
C3_TriggerDecision ==
    \A k \in CallsOf("check_sl_tp_condition") :
        LET c  == calls[k]
            sl == SlSatisfied(c.order, c.ohlc)
            tp == TpSatisfied(c.order, c.ohlc)
        IN  /\ c.order.sl_tp_type \in {Pip, Percent}
            /\ c.closed <=> (sl \/ tp)
            /\ sl /\ ~tp => c.close_price = LossThreshold(c.order)
            /\ tp /\ ~sl => c.close_price = ProfitThreshold(c.order)
            /\ c.closed => /\ c.id \in ClosedIds(simulator) /\ c.id \notin OpenIds(simulator)
                           /\ ClosedOrder(simulator, c.id).exit_price = c.close_price
            /\ ~c.closed => c.id \in OpenIds(simulator)

\* a Buy order with only its pip stop-loss satisfied: Low 94, closed at 95
C3_Witness ==
    \E k \in CallsOf("check_sl_tp_condition") :
        /\ calls[k].order.type = Buy /\ calls[k].order.sl_tp_type = Pip
        /\ calls[k].order.sl = RInt(5) /\ calls[k].order.entry_price = RInt(100)
        /\ calls[k].ohlc.Low = RInt(94)
        /\ ~TpSatisfied(calls[k].order, calls[k].ohlc)
        /\ calls[k].closed /\ calls[k].close_price = RInt(95)

\* C4: with a trailing distance configured, over every step the sl of every
\* order that stays open is at most what it was before the step, every
\* trailing update leaves sl at most what it found, and sl never exceeds
\* initial_sl.
C4_SlNeverLoosens ==
    [][StepAction /\ env.trailing_distance # None =>
        /\ \A a \in 1..Len(simulator.orders), b \in 1..Len(simulator'.orders) :
               simulator.orders[a].id = simulator'.orders[b].id
                   => RLe(simulator'.orders[b].sl, simulator.orders[a].sl)
        /\ \A b \in 1..Len(simulator'.orders) :
               RLe(simulator'.orders[b].sl, simulator'.orders[b].initial_sl)
        /\ \A k \in CallsIn(calls', "order_trailing_sl_updater") :
               RLe(calls'[k].sl, calls'[k].previous_sl)]_vars

\* a Buy order whose stop was tightened below initial_sl and that a later
\* update, at a Close for which initial_sl + entry - Close is larger, left alone
C4_Witness ==
    \E k \in CallsOf("order_trailing_sl_updater") :
        \E j \in 1..Len(simulator.orders) :
            LET o == simulator.orders[j]
            IN  /\ o.id = calls[k].id /\ o.type = Buy /\ o.sl_tp_type = Pip
                /\ RLt(calls[k].previous_sl, o.initial_sl)
                /\ RGt(RSub(RAdd(o.initial_sl, o.entry_price), calls[k].current_close),
                       calls[k].previous_sl)
                /\ calls[k].sl = calls[k].previous_sl

\* C5, as stated: within a step the trailing update of an order runs before
\* the trigger test of that order.
C5_TrailingBeforeTrigger ==
    \A i \in CallsOf("check_sl_tp_condition"), j \in CallsOf("order_trailing_sl_updater") :
        calls[i].id = calls[j].id => j < i

\* C5, amended: within a step every trigger test runs before every trailing
\* update, and the sl a trigger test reads is the sl the order had when the
\* step began, that is, the sl left by the trailing update of the step before.
C5_TriggerBeforeTrailing ==
    [][StepAction =>
        /\ \A i \in CallsIn(calls', "check_sl_tp_condition") :
               /\ \A j \in CallsIn(calls', "order_trailing_sl_updater") : i < j
               /\ \A a \in 1..Len(simulator.orders) :
                      simulator.orders[a].id = calls'[i].id
                          => calls'[i].order.sl = simulator.orders[a].sl
        /\ \A j \in CallsIn(calls', "order_trailing_sl_updater") :
               calls'[j].current_close = simulator.prices[calls'[j].symbol].Close]_vars

\* a step that tested an order, left it open, and then tightened its stop
C5_Witness ==
    \E i \in CallsOf("check_sl_tp_condition"), j \in CallsOf("order_trailing_sl_updater") :
        /\ calls[i].id = calls[j].id /\ i < j
        /\ ~calls[i].closed
        /\ RLt(calls[j].sl, calls[j].previous_sl)

\* the calls of a step that close an order
ClosingCalls(cs) ==
    {k \in 1..Len(cs) :
        \/ cs[k].op = "close_order"
        \/ cs[k].op = "check_sl_tp_condition" /\ cs[k].closed}

\* C6: in a step no order id is closed twice, an order closed by the explicit
\* close is not given to the trigger test, no order id appears twice in the
\* step's closed-order records; an order closed before the step is not
\* closed, tested or trailed by it, and its ledger entry does not change.
C6_ClosedAtMostOnce ==
    [][StepAction =>
        /\ \A i, j \in ClosingCalls(calls') : calls'[i].id = calls'[j].id => i = j
        /\ \A i \in CallsIn(calls', "close_order"), j \in CallsIn(calls', "check_sl_tp_condition") :
               calls'[i].id # calls'[j].id
        /\ LET records == info'.closed_orders
           IN  \A s1, s2 \in 1..Len(records) :
                   \A a \in 1..Len(records[s1]), b \in 1..Len(records[s2]) :
                       records[s1][a].order_id = records[s2][b].order_id
                           => s1 = s2 /\ a = b
        /\ \A k \in 1..Len(calls') :
               calls'[k].op \in {"close_order", "check_sl_tp_condition",
                                 "order_trailing_sl_updater"}
                   => calls'[k].id \notin ClosedIds(simulator)
        /\ \A a \in 1..Len(simulator.closed_orders) :
               simulator'.closed_orders[a] = simulator.closed_orders[a]
        /\ OpenIds(simulator') \cap ClosedIds(simulator') = {}]_vars

\* a step that explicitly closed an order, under an SL/TP configuration, with
\* another order closed in an earlier step
C6_Witness ==
    /\ check_is_not_none(env.sl_tp_type)
    /\ \E k \in CallsOf("close_order") :
           \E j \in 1..Len(simulator.closed_orders) :
               /\ simulator.closed_orders[j].id # calls[k].id
               /\ simulator.closed_orders[j].exit_time
                      < ClosedOrder(simulator, calls[k].id).exit_time

\* C7: in continuous mode the order at slot j of a symbol is explicitly
\* closed iff j is a position among the symbol's open orders and the slot's
\* close probability is strictly greater than close_threshold.
C7_CloseSelection ==
    [][StepAction /\ env.action_mode = 0 =>
        \A i \in 1..Len(env.trading_symbols) :
            LET k      == env.symbol_max_orders + 2
                symbol == env.trading_symbols[i]
                os     == symbol_orders(simulator, symbol)
                closes == {c \in CallsIn(calls', "close_order") : calls'[c].symbol = symbol}
                selected == {j \in 1..env.symbol_max_orders :
                                /\ j <= Len(os)
                                /\ RGt(expit(last_action'[k * (i - 1) + j]),
                                       env.close_threshold)}
            IN  /\ {calls'[c].id : c \in closes} = {os[j].id : j \in selected}
                /\ Cardinality(closes) = Cardinality(selected)
                /\ \A j \in selected : os[j].id \notin OpenIds(simulator')]_vars

\* a hedged step with one open order and two slots: slot 1 at a probability
\* equal to close_threshold, slot 2 above it, and nothing closed
C7_Witness ==
    /\ StepTaken /\ env.action_mode = 0 /\ env.symbol_max_orders = 2
    /\ expit(last_action[1]) = env.close_threshold
    /\ RGt(expit(last_action[2]), env.close_threshold)
    /\ info.orders[1].hold
    /\ Len(simulator.orders) = 1
    /\ ClosingCalls(calls) = {}

\* C8: in continuous mode hold is true iff hold_probability, the logistic
\* of the hold logit, is strictly greater than hold_threshold; a symbol on
\* hold creates no order.
C8_HoldDecision ==
    StepTaken /\ env.action_mode = 0 =>
        \A i \in 1..Len(env.trading_symbols) :
            LET k  == env.symbol_max_orders + 2
                hp == expit(last_action[k * (i - 1) + k - 1])
            IN  /\ info.orders[i].hold_probability = hp
                /\ info.orders[i].hold <=> RGt(hp, env.hold_threshold)
                /\ info.orders[i].hold =>
                       \A c \in CallsOf("create_order") :
                           calls[c].symbol # env.trading_symbols[i]

\* a hold probability equal to hold_threshold: no hold, and an order created
C8_Witness ==
    /\ StepTaken /\ env.action_mode = 0
    /\ info.orders[1].hold_probability = env.hold_threshold
    /\ ~info.orders[1].hold
    /\ \E c \in CallsOf("create_order") : calls[c].id # 0

\* C9: in discrete mode hold is true iff the fuzzy value the action index
\* selects is exactly 0, a symbol on hold creates no order, the step makes no
\* explicit close, and every closed-order record of the step comes from a
\* trigger test.
C9_DiscreteDecoder ==
    StepTaken /\ env.action_mode = 1 =>
        LET value == fuzzy_terms_generator(env.discrete_actions_count).terms[last_action + 1]
        IN  /\ info.orders[1].hold <=> (value = DZero)
            /\ info.orders[1].hold => CallsOf("create_order") = {}
            /\ CallsOf("close_order") = {}
            /\ \A a \in 1..Len(info.closed_orders[1]) :
                   \E c \in CallsOf("check_sl_tp_condition") :
                       calls[c].closed /\ calls[c].id = info.closed_orders[1][a].order_id

\* a discrete step on hold in which a trigger test closed the open order
C9_Witness ==
    /\ StepTaken /\ env.action_mode = 1
    /\ info.orders[1].hold
    /\ \E c \in CallsOf("check_sl_tp_condition") : calls[c].closed
    /\ Len(info.closed_orders[1]) = 1

\* C10, its exact values: for an odd count n the table has n entries, the
\* middle one exactly 0, the first -1 and the last 1 (n > 1); for an even
\* count the call fails and returns no table.
C10_FuzzyTermsAsStated ==
    ftable # None =>
        IF fx % 2 = 0 THEN ftable.error = FuzzyError /\ ftable.terms = <<>>
        ELSE LET t == ftable.terms
             IN  /\ ftable.error = "" /\ Len(t) = fx
                 /\ t[(fx + 1) \div 2] = DZero
                 /\ fx > 1 => t[1] = DNeg(DFromNat(1)) /\ t[fx] = DFromNat(1)

\* whether x is a whole number of steps
IsMultipleOf(x, unit) == RDiv(x, unit)[2] = 1

ResetTaken == reset_from # None

RECURSIVE SumRewards(_, _)
SumRewards(hist, n) ==
    IF n <= 1 THEN RZero ELSE RAdd(hist[n].step_reward, SumRewards(hist, n - 1))

\* C12: the reward of a step is the simulator's equity after the step's clock
\* advance minus the equity of the previous history entry, unscaled, and the
\* rewards since reset sum to the final equity minus the equity at reset
C12_RewardIsEquityChange ==
    StepTaken =>
        LET n == Len(history)
        IN  /\ info.step_reward = RSub(simulator.equity, history[n - 1].equity)
            /\ history[n].step_reward = info.step_reward
            /\ history[n].equity = simulator.equity
            /\ SumRewards(history, n) = RSub(simulator.equity, history[1].equity)

\* two steps, a gain and then a loss
C12_Witness ==
    /\ StepTaken /\ Len(history) = 3
    /\ RGt(history[2].step_reward, RZero)
    /\ RLt(history[3].step_reward, RZero)
    /\ history[3].equity # history[1].equity

\* C13: after reset, in whatever state it was called, the cursor is
\* window_size - 1, the clock is time_points[window_size - 1], the episode is
\* not terminated and the history holds one entry, the account before any
\* trade
C13_ResetState ==
    ResetTaken =>
        /\ current_tick = env.window_size - 1
        /\ simulator.current_time = env.time_points[(env.window_size - 1) + 1]
        /\ done = FALSE
        /\ Len(history) = 1
        /\ history[1].balance = original_simulator.balance
        /\ history[1].equity = original_simulator.equity
        /\ history[1].margin = original_simulator.margin

\* a reset called on a terminated episode that had traded
C13_Witness ==
    /\ ResetTaken /\ ~reset_from.fresh /\ reset_from.done /\ reset_from.traded
    /\ env.window_size = 2 /\ current_tick = 1 /\ Len(history) = 1

\* C14: the history is append-only: a step appends one entry and leaves the
\* earlier ones as they were, and after reset and k steps it has k + 1 entries
C14_HistoryAppendOnly ==
    [][/\ calls' # <<>> =>
              /\ Len(history') = Len(history) + 1
              /\ SubSeq(history', 1, Len(history)) = history
       /\ history' # NotImplementedHistory =>
              Len(history') = (current_tick' - (env.window_size - 1)) + 1]_vars

\* three steps after a reset
C14_Witness == StepTaken /\ Len(history) = 4 /\ current_tick = 3

\* C15: a step advances the cursor by one; it returns terminated iff the new
\* cursor is len(time_points) - 1, which is step number
\* len(time_points) - window_size of the episode
C15_CursorAndTermination ==
    [][calls' # <<>> =>
          /\ current_tick' = current_tick + 1
          /\ done' <=> (current_tick' = Len(env.time_points) - 1)
          /\ done' <=> (Len(history') - 1 = Len(env.time_points) - env.window_size)]_vars

\* the terminating step of an episode with window_size 2
C15_Witness ==
    /\ StepTaken /\ done /\ env.window_size = 2
    /\ Len(history) - 1 = Len(env.time_points) - 2

\* C16: a step advances the clock by time_points[new cursor] -
\* time_points[old cursor]; after reset and after every step the clock is
\* time_points[cursor]
C16_ClockFollowsCursor ==
    [][/\ history' # NotImplementedHistory =>
              simulator'.current_time = env.time_points[current_tick' + 1]
       /\ calls' # <<>> =>
              simulator'.current_time - simulator.current_time =
                  env.time_points[current_tick' + 1] - env.time_points[current_tick + 1]]_vars

\* the third step: from time point 4 to time point 9
C16_Witness ==
    /\ StepTaken /\ current_tick = 3 /\ simulator.current_time = 9
    /\ calls[Len(calls)].op = "tick" /\ calls[Len(calls)].delta = 5

\* the account state of a simulator
Account(sim) ==
    [balance |-> sim.balance, equity |-> sim.equity, margin |-> sim.margin,
     orders |-> sim.orders, closed_orders |-> sim.closed_orders]

\* C17: no reset and no step changes the base simulator, and the account
\* right after every reset is the account of the base simulator, whatever was
\* traded before
C17_EpisodesIsolated ==
    [][/\ original_simulator' = original_simulator
       /\ reset_from' # None => Account(simulator') = Account(original_simulator)]_vars

\* a reset after an episode that had created orders
C17_Witness ==
    /\ ResetTaken /\ reset_from.traded
    /\ simulator.orders = <<>> /\ simulator.closed_orders = <<>>
    /\ simulator.balance = InitialBalance /\ simulator.equity = InitialBalance

AllIds(sim) == OpenIds(sim) \cup {sim.closed_orders[j].id : j \in 1..Len(sim.closed_orders)}

AllOrders(sim) ==
    {sim.orders[j] : j \in 1..Len(sim.orders)}
        \cup {sim.closed_orders[j] : j \in 1..Len(sim.closed_orders)}

\* C18: when the creation of an order is rejected in a step (the simulator
\* rejects it, or a hedged account has no capacity left for the symbol), the
\* symbol's info record has a non-empty error and no order_id, no order is
\* created for the symbol, and the step still advances the cursor and the
\* clock and appends its history entry
C18_RejectedCreation ==
    [][calls' # <<>> =>
          /\ \A k \in CallsIn(calls', "create_order") :
                 calls'[k].error # "" =>
                     info'.orders[SymbolIndex(calls'[k].symbol)].error = calls'[k].error
          /\ \A i \in 1..Len(env.trading_symbols) :
                 LET rec == info'.orders[i]
                 IN  /\ (simulator.hedge /\ rec.capacity = 0) => rec.error # ""
                     /\ rec.error # "" =>
                            /\ rec.order_id = None
                            /\ \A o \in AllOrders(simulator') :
                                   o.symbol = env.trading_symbols[i]
                                       => o.id \in AllIds(simulator)
                            /\ current_tick' = current_tick + 1
                            /\ simulator'.current_time = env.time_points[current_tick' + 1]
                            /\ Len(history') = Len(history) + 1]_vars

\* a step in which the simulator rejected the order for lack of margin
C18_Witness ==
    /\ StepTaken
    /\ \E k \in CallsOf("create_order") : calls[k].error = InsufficientMargin
    /\ info.orders[1].error = InsufficientMargin /\ info.orders[1].order_id = None

\* C19: in flattened observation mode the buffer always has window_size rows;
\* a step puts the new snapshot in row 0, moves every earlier row down by one
\* and drops the oldest
C19_RollingBuffer ==
    [][env.observation_mode = 1 =>
          /\ Len(orders_balance_equity_margin_array) = env.window_size
          /\ Len(orders_balance_equity_margin_array') = env.window_size
          /\ calls' # <<>> =>
                 /\ orders_balance_equity_margin_array'[1] =
                        _get_orders_balance_equity_margin_one_step_flattened(env, simulator')
                 /\ \A i \in 2..env.window_size :
                        orders_balance_equity_margin_array'[i] =
                            orders_balance_equity_margin_array[i - 1]]_vars

\* after two steps the buffer holds two different snapshots, the newer first
C19_Witness ==
    /\ StepTaken /\ env.observation_mode = 1 /\ env.window_size = 2
    /\ Len(history) = 3
    /\ orders_balance_equity_margin_array[1] # orders_balance_equity_margin_array[2]
    /\ orders_balance_equity_margin_array[1] =
           _get_orders_balance_equity_margin_one_step_flattened(env, simulator)

\* C20: after every reset all window_size rows of the buffer are the
\* snapshot of the new episode's account before any trade; no row of an
\* earlier episode remains
C20_BufferWarmStart ==
    ResetTaken =>
        /\ Len(orders_balance_equity_margin_array) = env.window_size
        /\ \A i \in 1..env.window_size :
               orders_balance_equity_margin_array[i] =
                   _get_orders_balance_equity_margin_one_step_flattened(env, simulator)

\* a reset that found rows of an earlier episode in the buffer
C20_Witness ==
    /\ ResetTaken /\ ~reset_from.fresh /\ reset_from.stale /\ reset_from.traded
    /\ env.observation_mode = 1 /\ env.window_size = 2

(***************************************************************************)
(* C21                                                                     *)
(***************************************************************************)
Constructed == init_outcome # None

\* the arguments name a symbol the accounting collaborator does not know
HasUnknownSymbol(a) ==
    \E i \in 1..Len(a.trading_symbols) : a.trading_symbols[i] \notin DOMAIN BaseSimulator(a.hedge, a.market).prices

\* the violations of the arguments other than the one about time points
OtherViolation(a) ==
    \/ a.trading_symbols = <<>>
    \/ RLt(a.hold_threshold, RZero) \/ RGt(a.hold_threshold, ROne)
    \/ HasUnknownSymbol(a)
    \/ a.discrete_actions_count % 2 = 0

\* C21 (as the code has it): with market data present, construction fails
\* exactly when the trading-symbol set is empty, hold_threshold is outside
\* [0, 1], a trading symbol is unknown, discrete_actions_count is even, or
\* there are no more time points than window_size; otherwise it succeeds and
\* sets the attributes from the arguments.
C21_ConstructionFailsIffInvalid ==
    (Constructed /\ init_args.market # <<>>) =>
        /\ init_outcome.error # "" <=>
               (OtherViolation(init_args)
                \/ Len(init_args.time_points) <= init_args.window_size)
        /\ init_outcome.error = "" =>
               /\ env # None
               /\ env.trading_symbols = init_args.trading_symbols
               /\ env.hold_threshold = init_args.hold_threshold
               /\ env.window_size = init_args.window_size
               /\ env.time_points = init_args.time_points

\* C21 (as stated): construction fails exactly for the listed violations, the
\* last of them being fewer time points than window_size.
C21_FailsOnlyOnFewerTimePoints ==
    (Constructed /\ init_args.market # <<>>) =>
        (init_outcome.error # "" <=>
            (OtherViolation(init_args)
             \/ Len(init_args.time_points) < init_args.window_size))

\* construction was refused although the arguments have as many time points
\* as window_size and nothing else is wrong with them
C21_Witness ==
    /\ Constructed /\ init_args.market # <<>>
    /\ ~OtherViolation(init_args)
    /\ Len(init_args.time_points) = init_args.window_size
    /\ init_outcome = AssertionError("not enough time points provided")

(***************************************************************************)
(* C22                                                                     *)
(***************************************************************************)
\* the raw volume the action carries for symbol number i (from 1); in
\* discrete mode, the volume derived from the fuzzy term
RawVolume(e, action, rec, i) ==
    IF e.action_mode = 0 THEN action[(e.symbol_max_orders + 2) * i]
    ELSE IF e.action_mode = 2 THEN action[i][3][1]
    ELSE rec.volume

\* the symbol's open orders of sim that the calls cs did not close
OpenAfterCloses(sim, cs, symbol) ==
    {o \in {sim.orders[j] : j \in 1..Len(sim.orders)} :
        /\ o.symbol = symbol
        /\ \A k \in ClosingCalls(cs) : cs[k].id # o.id}

\* C22: for each symbol of a step, the creation of an order is attempted iff
\* hold is false and it is not the case that hedging is enabled and the
\* capacity left after the step's closes is 0; the side requested is Buy iff
\* the raw volume is > 0 and Sell otherwise, the volume requested is the
\* normalized one, which for a raw volume of 0 is the symbol's minimum; when
\* hold is true no order is created.
C22_CreationAttempt ==
    [][calls' # <<>> =>
          \A i \in 1..Len(env.trading_symbols) :
              LET symbol   == env.trading_symbols[i]
                  rec      == info'.orders[i]
                  capacity == env.symbol_max_orders
                                  - Cardinality(OpenAfterCloses(simulator, calls', symbol))
                  raw      == RawVolume(env, last_action', rec, i)
                  attempts == {k \in CallsIn(calls', "create_order") :
                                   calls'[k].symbol = symbol}
              IN  /\ rec.volume = raw
                  /\ attempts # {} <=> (~rec.hold /\ ~(simulator.hedge /\ capacity = 0))
                  /\ Cardinality(attempts) <= 1
                  /\ \A k \in attempts :
                         /\ calls'[k].order_type = Buy <=> RGt(raw, RZero)
                         /\ calls'[k].order_type = Sell <=> RLe(raw, RZero)
                         /\ calls'[k].volume = _get_modified_volume(raw)
                         /\ raw = RZero => calls'[k].volume = SymbolInfo.volume_min
                  /\ rec.hold =>
                         /\ rec.order_id = None
                         /\ \A o \in AllOrders(simulator') :
                                o.symbol = symbol => o.id \in AllIds(simulator)]_vars

\* a step whose action had hold false and a raw volume of 0: a Sell of the
\* minimum volume was created
C22_Witness ==
    /\ StepTaken
    /\ env.action_mode = 0
    /\ ~info.orders[1].hold /\ info.orders[1].volume = RZero
    /\ \E k \in CallsOf("create_order") :
           /\ calls[k].order_type = Sell /\ calls[k].volume = SymbolInfo.volume_min
           /\ calls[k].error = "" /\ info.orders[1].order_id = calls[k].id

(***************************************************************************)
(* C23                                                                     *)
(***************************************************************************)
\* the fields of an order that tick rewrites at every clock advance
TickFields == {"exit_time", "exit_price", "gross_profit", "profit"}

\* C23: every trailing update of a pip-type order sets sl to
\* min(sl, initial_sl + entry_price - Close) for a Buy order and to
\* min(sl, initial_sl - entry_price + Close) for a Sell order, Close being
\* the Close the update read; it finds in sl what the order had before the
\* step and changes no other field of the order.
C23_PipTrailingUpdate ==
    [][calls' # <<>> =>
          \A k \in CallsIn(calls', "order_trailing_sl_updater") :
              \A b \in 1..Len(simulator'.orders) :
                  LET c == calls'[k]
                      o == simulator'.orders[b]
                  IN  (o.id = c.id /\ o.sl_tp_type = Pip) =>
                          /\ c.current_close = simulator.prices[o.symbol].Close
                          /\ o.type = Buy =>
                                 c.sl = RMin(c.previous_sl,
                                             RSub(RAdd(o.initial_sl, o.entry_price),
                                                  c.current_close))
                          /\ o.type = Sell =>
                                 c.sl = RMin(c.previous_sl,
                                             RAdd(RSub(o.initial_sl, o.entry_price),
                                                  c.current_close))
                          /\ o.sl = c.sl
                          /\ \A a \in 1..Len(simulator.orders) :
                                 simulator.orders[a].id = o.id =>
                                     /\ c.previous_sl = simulator.orders[a].sl
                                     /\ \A f \in DOMAIN o \ (TickFields \cup {"sl"}) :
                                            o[f] = simulator.orders[a][f]
                          /\ o.id \notin OpenIds(simulator) =>
                                 c.previous_sl = env.sl /\ o.initial_sl = env.sl]_vars

\* a Sell order of pip type whose stop an earlier update had tightened and
\* that this step's update tightened again
C23_Witness ==
    /\ StepTaken
    /\ \E k \in CallsOf("order_trailing_sl_updater") :
           \E b \in 1..Len(simulator.orders) :
               LET o == simulator.orders[b]
               IN  /\ o.id = calls[k].id /\ o.type = Sell /\ o.sl_tp_type = Pip
                   /\ RLt(calls[k].previous_sl, o.initial_sl)
                   /\ RLt(calls[k].sl, calls[k].previous_sl)
                   /\ o.sl = calls[k].sl

(***************************************************************************)
(* C24                                                                     *)
(***************************************************************************)
\* C24 (as stated): in flattened observation mode, row 0 of the rolling-buffer
\* part of the observation a step returns is the snapshot of the account
\* state after that step.
C24_ObservationHasCurrentRow ==
    (StepTaken /\ env.observation_mode = 1) =>
        observation.array[1] =
            _get_orders_balance_equity_margin_one_step_flattened(env, simulator)

(***************************************************************************)
(* C25                                                                     *)
(***************************************************************************)
\* C25 (as stated): in structured mode, whatever close_threshold and
\* hold_threshold are, the order at slot j of a symbol is explicitly closed
\* iff j is a position among the symbol's open orders and bit j of the close
\* mask is 1, and hold is the hold flag the action supplies.
C25_MaskAppliedDirectly ==
    [][calls' # <<>> /\ env.action_mode = 2 =>
        \A i \in 1..Len(env.trading_symbols) :
            LET symbol == env.trading_symbols[i]
                os     == symbol_orders(simulator, symbol)
                mask   == last_action'[i][1]
                closes == {c \in CallsIn(calls', "close_order") : calls'[c].symbol = symbol}
                selected == {j \in 1..Len(mask) : j <= Len(os) /\ mask[j] = 1}
            IN  /\ {calls'[c].id : c \in closes} = {os[j].id : j \in selected}
                /\ info'.orders[i].hold = (last_action'[i][2] # 0)]_vars

(***************************************************************************)
(* C26                                                                     *)
(***************************************************************************)
\* slot (i, j) of an orders tensor holds the details of the j-th open order
\* of symbol i, and zeros when the symbol has fewer than j open orders
SlotsAreOpenOrders(tensor) ==
    \A i \in 1..Len(env.trading_symbols) :
        LET os == symbol_orders(simulator, env.trading_symbols[i])
        IN  /\ Len(os) <= env.symbol_max_orders
            /\ \A j \in 1..env.symbol_max_orders :
                   tensor[i][j] =
                       IF j <= Len(os) THEN _get_order_detail_list(env, simulator, os[j])
                       ELSE [d \in 1..env.orders_observation_detail_count |-> RZero]

\* the orders tensor that the newest row of a flattened observation holds
NewestRowTensor ==
    LET m == env.symbol_max_orders
        c == env.orders_observation_detail_count
    IN  [i \in 1..Len(env.trading_symbols) |->
            [j \in 1..m |->
                [d \in 1..c |-> observation.array[1][(i - 1) * m * c + (j - 1) * c + d]]]]

\* the part of C26 about the structured observation
C26_StructuredOrdersTensor ==
    (observation # None /\ env.observation_mode = 0) =>
        SlotsAreOpenOrders(observation.orders)

\* C26 (as stated): in every observation returned, structured or flattened,
\* slot (i, j) of the orders tensor holds the details of the j-th order of
\* symbol i that is open at that moment and every other slot is all zeros, so
\* that an order closed in a step is not in that step's observation.
C26_OrdersTensorIsCurrent ==
    /\ C26_StructuredOrdersTensor
    /\ (observation # None /\ env.observation_mode = 1) =>
           SlotsAreOpenOrders(NewestRowTensor)

(***************************************************************************)
(* C27                                                                     *)
(***************************************************************************)
\* the orders of a symbol, open or closed, that sim2 has and sim1 has not
NewOrders(sim1, sim2, symbol) ==
    {o \in AllOrders(sim2) : o.symbol = symbol /\ o.id \notin AllIds(sim1)}

\* C27: under hedging no symbol ever has more than symbol_max_orders open
\* orders; a step creates at most one order per symbol, and none for a symbol
\* whose capacity, after the step's closes, is 0.
C27_OpenOrdersBounded ==
    [][simulator'.hedge =>
          \A i \in 1..Len(env.trading_symbols) :
              LET symbol == env.trading_symbols[i]
              IN  /\ Len(symbol_orders(simulator', symbol)) <= env.symbol_max_orders
                  /\ calls' # <<>> =>
                         /\ Cardinality(NewOrders(simulator, simulator', symbol)) <= 1
                         /\ Cardinality(OpenAfterCloses(simulator, calls', symbol))
                                = env.symbol_max_orders
                                => NewOrders(simulator, simulator', symbol) = {}]_vars

\* a hedged account with MaxOrders slots, all of them taken, after a step
\* that asked for one more order and was refused
C27_Witness ==
    /\ StepTaken /\ simulator.hedge /\ env.symbol_max_orders = MaxOrders
    /\ Len(symbol_orders(simulator, env.trading_symbols[1])) = MaxOrders
    /\ ~info.orders[1].hold
    /\ info.orders[1].capacity = 0
    /\ info.orders[1].error = "cannot add more orders"
    /\ CallsOf("create_order") = {}

(***************************************************************************)
(* C28                                                                     *)
(***************************************************************************)
\* C28 (as stated): hold_threshold lies in [0, 1] in every reachable state of
\* a constructed environment, also after set_thresholds has been called.
C28_HoldThresholdInUnitInterval ==
    env # None => RLe(RZero, env.hold_threshold) /\ RLe(env.hold_threshold, ROne)

(***************************************************************************)
(* C29                                                                     *)
(***************************************************************************)
\* the trailing update applied twice to an order at the simulator's current
\* Close leaves sl where the first application put it
IdempotentOn(o) ==
    order_trailing_sl_updater(simulator, order_trailing_sl_updater(simulator, o)).sl
        = order_trailing_sl_updater(simulator, o).sl

\* the part of C29 about pip-type orders
C29_PipTrailingIdempotent ==
    env.trailing_distance # None =>
        \A j \in 1..Len(simulator.orders) :
            simulator.orders[j].sl_tp_type = Pip => IdempotentOn(simulator.orders[j])

\* C29 (as stated): for every open order, Buy or Sell, of pip or percent
\* type, applying the trailing update twice at the same Close leaves sl equal
\* to its value after the first application.
C29_TrailingIdempotent ==
    env.trailing_distance # None =>
        \A j \in 1..Len(simulator.orders) : IdempotentOn(simulator.orders[j])

(***************************************************************************)
(* C30                                                                     *)
(***************************************************************************)
\* the ids of the orders a step's calls created
CreatedIds(cs) == {cs[k].id : k \in {c \in CallsIn(cs, "create_order") : cs[c].error = ""}}

\* C30: an order created in a step is neither trigger-tested nor closed in
\* that step and is open when the step ends, after the clock has advanced
\* past its entry time; every trigger test and every close is of an order
\* that was open when the step began and was created at an earlier clock
\* time, and a trigger test reads the bar of the clock time at which the step
\* began, the one the previous step advanced to.
C30_NoSameStepTrigger ==
    [][calls' # <<>> =>
          /\ \A id \in CreatedIds(calls') :
                 /\ id \notin AllIds(simulator)
                 /\ \A k \in 1..Len(calls') :
                        calls'[k].op \in {"close_order", "check_sl_tp_condition"}
                            => calls'[k].id # id
                 /\ id \in OpenIds(simulator')
                 /\ \A o \in AllOrders(simulator') :
                        o.id = id => /\ o.entry_time = simulator.current_time
                                     /\ simulator'.current_time > o.entry_time
          /\ \A k \in 1..Len(calls') :
                 calls'[k].op \in {"close_order", "check_sl_tp_condition"} =>
                     /\ calls'[k].id \in OpenIds(simulator)
                     /\ \A a \in 1..Len(simulator.orders) :
                            simulator.orders[a].id = calls'[k].id
                                => simulator.orders[a].entry_time < simulator.current_time
          /\ \A k \in CallsIn(calls', "check_sl_tp_condition") :
                 calls'[k].ohlc = simulator.prices[calls'[k].symbol]
          /\ \A o \in AllOrders(simulator') :
                 o.closed => o.exit_time > o.entry_time]_vars

\* an order created in the step before this one, which this step tested
\* against the new bar and closed
C30_Witness ==
    /\ StepTaken /\ current_tick >= 2
    /\ \E k \in CallsOf("check_sl_tp_condition") :
           /\ calls[k].closed
           /\ calls[k].order.entry_time = env.time_points[current_tick - 1]
           /\ calls[k].id \in ClosedIds(simulator)

(***************************************************************************)
(* C31                                                                     *)
(***************************************************************************)
\* reset has been called
EpisodeBegun == history # NotImplementedHistory

\* the part of C31 about the cursor: from reset up to and including
\* termination the cursor is between window_size - 1 and
\* len(time_points) - 1, the start index is below the terminal index, and a
\* reset leaves the episode not terminated
C31_CursorInRange ==
    EpisodeBegun =>
        /\ env.window_size - 1 <= current_tick
        /\ current_tick <= Len(env.time_points) - 1
        /\ _start_tick(env) < _end_tick(env)
        /\ ResetTaken => ~done /\ current_tick < _end_tick(env)

\* C31 (as stated): from reset up to and including termination the cursor is
\* in range as above, and the feature window
\* [cursor - window_size + 1, cursor] is within the feature table, so that
\* the features of the observation are exactly those window_size rows.
C31_WindowWithinFeatureTable ==
    /\ C31_CursorInRange
    /\ EpisodeBegun =>
           /\ 0 <= current_tick - env.window_size + 1
           /\ current_tick <= Len(env.signal_features) - 1
           /\ Len(observation.features) = env.window_size
           /\ observation.features =
                  [r \in 1..env.window_size |-> current_tick - env.window_size + r]

====
